---- MODULE Spec2Model ----
(***************************************************************************)
(* Model of the manilua download backend:                                  *)
(*   backend/manilua.py      maniluaManager (state store, orchestrator,    *)
(*                           streaming downloader, installer)              *)
(*   backend/http_client.py  HTTPClient (_retry_request, stream_get)       *)
(*                                                                         *)
(* Spec       the orchestrator: callers (add_via_lua,                      *)
(*            select_endpoint_and_download) and the background worker      *)
(*            threads they start, one step per access to shared state      *)
(*            (the state store under its lock, the scratch file, the       *)
(*            install directory).                                          *)
(* FairSpec   Spec with weak fairness of every worker thread.              *)
(* SoloSpec   one add_via_lua and the selection that may follow it, over   *)
(*            every response and payload of the server.                    *)
(* RetrySpec  HTTPClient._retry_request, one step per attempt.             *)
(* InstallSpec  one item installed from every archive, and remove_via_lua. *)
(* StoreSpec, SnapshotSpec  the state store as objects and references.     *)
(* ProbeSpec, PoolSpec  the probe fan-out, one step per probe              *)
(*            (APIManager.check_availability of backend/api_manager.py).   *)
(* FaultSpec  SoloSpec with steps that raise outside the download handler. *)
(* CacheSpec  APIManager.set_api_key and get_user_id on two threads, one   *)
(*            step per access to the attributes of the manager.            *)
(***************************************************************************)
EXTENDS Integers, Sequences, FiniteSets, TLC

\* ---------------------------------------------------------------- bounds
\* Number of background threads started in one behaviour.
MaxWorkers == 2
\* Number of non-empty chunks a stream delivers at most (one byte each).
MaxBody == 2
\* The same in the specifications with several threads.
MaxConcurrentBody == 1
\* Largest clock value time.time() returns (ticks of the update interval).
MaxTime == 2

\* Number of threads that call _set_download_state at the same time.
MaxStoreThreads == 2
\* Number of _set_download_state calls in one behaviour.
MaxStoreOps == 3
\* Number of changes a caller makes to a snapshot it was given.
MaxSnapEdits == 2

\* Number of candidate endpoints of the longest list given to add_via_lua.
MaxCandidates == 5

\* Number of set_api_key calls in one behaviour.
MaxKeyChanges == 2
\* Number of get_user_id calls in one behaviour.
MaxLookups == 2
\* Largest value time.time() returns to get_user_id (ticks).
MaxApiTime == 4

\* ------------------------------------------------------ program constants
\* config.HTTP_MAX_RETRIES, read at http_client.py:33.
HTTP_MAX_RETRIES == 3
\* config.DOWNLOAD_PROGRESS_UPDATE_INTERVAL in clock ticks (manilua.py:125).
DOWNLOAD_PROGRESS_UPDATE_INTERVAL == 1
\* ThreadPoolExecutor(max_workers=4) (manilua.py:384).
max_workers == 4
\* config.API_USER_ID_CACHE_TTL in clock ticks (api_manager.py:16).
API_USER_ID_CACHE_TTL == 2

\* ----------------------------------------------------------------- inputs
AppIds == {1, 2}
\* What callers pass as appid: int() accepts the first two and raises on "abc".
RawAppIds == {"1", "2", "abc"}
\* The endpoint lists callers pass to add_via_lua.
EndpointLists == {<<"ryuu", "manilua">>, <<"manilua">>}
\* The endpoints a caller may name in select_endpoint_and_download.
EndpointNames == {"ryuu", "manilua", "donation"}

\* ------------------------------------------------------------ dictionaries
\* A Python dict is a function whose domain is the set of keys present.
EmptyDict == [k \in {} |-> 0]

\* dict.update: keys of upd replace or extend those of old (manilua.py:30).
DictUpdate(old, upd) ==
    [k \in (DOMAIN old) \cup (DOMAIN upd) |->
        IF k \in DOMAIN upd THEN upd[k] ELSE old[k]]

\* dict.get(k, default)
DictGet(d, k, default) == IF k \in DOMAIN d THEN d[k] ELSE default

\* _set_download_state: merge update into the entry of appid, under the lock.
SetDownloadState(ds, appid, upd) ==
    [ds EXCEPT ![appid] = DictUpdate(@, upd)]

\* _get_download_state: a copy of the entry ({} when absent).
GetDownloadState(ds, appid) == ds[appid]

\* int(appid) on what the caller passed; "bad" stands for ValueError.
IntOf(raw) ==
    CASE raw = "1" -> [ok |-> TRUE, v |-> 1]
      [] raw = "2" -> [ok |-> TRUE, v |-> 2]
      [] OTHER -> [ok |-> FALSE, v |-> 0]

Range(s) == {s[i] : i \in DOMAIN s}

\* The orders in which the futures of a fan-out over eps can complete.
CompletionOrders(eps) ==
    {p \in [1..Len(eps) -> Range(eps)] :
        \A i, j \in 1..Len(eps) : i # j => p[i] # p[j]}

\* The as_completed loop (manilua.py:389-393): results are appended in the
\* order the futures complete; the deadline fires after the first k.
CollectAsCompleted(order, res, k) ==
    SelectSeq(SubSeq(order, 1, k), LAMBDA e : res[e] = "available")

\* temp_<appid>.zip in the backend directory (manilua.py:93).
TempZipPath(appid) == "temp_" \o ToString(appid) \o ".zip"

\* ---------------------------------------------------------------- state
VARIABLES
    download_state,   \* maniluaManager._download_state
    workers,          \* the background threads, by slot
    nextWorker,       \* the next free slot
    temp,             \* the scratch file of each appid, on disk
    installdir,       \* the install directory: file name -> content
    lastCall,         \* the call the latest step made, and what it returned
    rq,               \* one _retry_request call in progress (RetrySpec)
    st,               \* the state store as objects and references (StoreSpec)
    api               \* APIManager and the threads that call it (CacheSpec)

vars == <<download_state, workers, nextWorker, temp, installdir, lastCall, rq, st, api>>

NoCall == [op |-> "none", raw |-> "", ep |-> "", success |-> FALSE, error |-> ""]

IdleWorker ==
    [pc |-> "idle", kind |-> "none", appid |-> 0, endpoints |-> <<>>,
     available_on |-> <<>>, endpoint |-> "", code |-> 0, ctype |-> "",
     total |-> 0, bytes_read |-> 0, last_ts |-> 0, clock |-> 1,
     entries |-> <<>>, exc |-> "",
     installed |-> <<>>, last |-> "",
     pending |-> <<>>, running |-> {}, timed_out |-> FALSE,
     probe |-> [endpoint |-> "", resp |-> ""]]

\* What a payload can be: a file that is no archive, an archive that
\* is_zipfile accepts and ZipFile rejects, or an archive with its entries.
RawPayload == [kind |-> "raw", entries |-> <<>>]
BadZipPayload == [kind |-> "badzip", entries |-> <<>>]
NoPayload == [kind |-> "none", entries |-> <<>>]

\* writers: the threads whose open handle refers to the file at the path;
\* stuck: an os.remove of the file has raised (history variable).
NoTemp == [exists |-> FALSE, bytes |-> 0, payload |-> NoPayload,
           writers |-> {}, stuck |-> FALSE]

IdleRq == [pc |-> "idle"]

\* A value held in a dict object: a string, or a reference to a list object.
Scalar(s) == [s |-> s, ref |-> 0]
ListRef(n) == [s |-> "", ref |-> n]

\* A value written out in full: a string, or the elements of a list.
Str(s) == [s |-> s, l |-> <<>>, list |-> FALSE]
Lst(l) == [s |-> "", l |-> l, list |-> TRUE]

IdleStoreThread == [pc |-> "idle", appid |-> 0, update |-> EmptyDict, state |-> 0]

NoSnap == [taken |-> FALSE, appid |-> 0, d |-> EmptyDict, edits |-> 0]

\* The store as Python holds it: _download_state maps an id to a dict object
\* (0: no entry); dicts and lists are the objects, by identity; lock is the
\* holder of _download_lock; applied is the history of the merged updates.
IdleStore ==
    [entry |-> [a \in AppIds |-> 0],
     dicts |-> <<>>, lists |-> <<>>,
     lock |-> 0,
     th |-> [t \in 1..MaxStoreThreads |-> IdleStoreThread],
     ops |-> 0,
     applied |-> [a \in AppIds |-> <<>>],
     snap |-> NoSnap]

\* The values of APIManager's results: None, {'success': True, 'userId': u}
\* and {'success': False, 'error': e}.
PyNone == [none |-> TRUE, success |-> FALSE, userId |-> "", error |-> ""]
UserIdResult(userId) ==
    [none |-> FALSE, success |-> TRUE, userId |-> userId, error |-> ""]
ErrorResult(error) ==
    [none |-> FALSE, success |-> FALSE, userId |-> "", error |-> error]

\* A thread that is not inside set_api_key.
IdleSetter == [pc |-> "idle", calls |-> 0]
\* A thread that is not inside get_user_id.  raced records that some step of
\* set_api_key was taken between the start of the call and its return.
IdleGetter ==
    [pc |-> "idle", force_refresh |-> FALSE, now |-> 0, api_key |-> "",
     result |-> PyNone, raced |-> FALSE, calls |-> 0]

\* api_manager.py:11-16: APIManager.__init__, and the clock.
IdleApi ==
    [api_key |-> "", user_id_cache |-> PyNone, user_id_cache_time |-> 0,
     clock |-> API_USER_ID_CACHE_TTL,
     set |-> IdleSetter, get |-> IdleGetter]

Init ==
    /\ download_state = [a \in AppIds |-> EmptyDict]
    /\ workers = [w \in 1..MaxWorkers |-> IdleWorker]
    /\ nextWorker = 1
    /\ temp = [a \in AppIds |-> NoTemp]
    /\ installdir = EmptyDict
    /\ lastCall = NoCall
    /\ rq = IdleRq
    /\ st = IdleStore
    /\ api = IdleApi

\* A worker's write to the state store; the status it wrote last is kept in
\* the worker (history variable). A thread that has ended keeps nothing else.
Finished(w, last) == [IdleWorker EXCEPT !.pc = "finished", !.kind = w.kind,
                                        !.appid = w.appid, !.last = last]

Traced(w, upd) ==
    LET nw == IF "status" \in DOMAIN upd THEN [w EXCEPT !.last = upd.status] ELSE w
    IN IF nw.pc = "finished" THEN Finished(nw, nw.last) ELSE nw

\* One step of thread w that writes the state store, and one that does not.
WStep(w, nw, upd) ==
    /\ workers' = [workers EXCEPT ![w] = Traced(nw, upd)]
    /\ download_state' = SetDownloadState(download_state, workers[w].appid, upd)

WLocal(w, nw) ==
    /\ workers' = [workers EXCEPT ![w] = nw]
    /\ UNCHANGED download_state

\* ------------------------------------------------------------ the callers
Returned(env, op, raw, ep, success, error) ==
    IF env.observed
    THEN [op |-> op, raw |-> raw, ep |-> ep, success |-> success, error |-> error]
    ELSE NoCall

DefaultEndpoints == <<"oureveryday", "ryuu", "manilua", "donation">>

\* add_via_lua (manilua.py:284-318)
add_via_lua(env, raw, endpoints) ==
    LET c == IntOf(raw) IN
    IF ~c.ok
    THEN /\ lastCall' = Returned(env, "add", raw, "", FALSE, "Invalid appid")
         /\ UNCHANGED <<download_state, workers, nextWorker, temp, installdir, rq, st, api>>
    ELSE /\ nextWorker <= env.threads
         /\ Cardinality({w \in 1..MaxWorkers : workers[w].kind = "add"}) < env.adds
         /\ download_state' = SetDownloadState(download_state, c.v,
                [status |-> "queued", bytesRead |-> 0, totalBytes |-> 0])
         /\ workers' = [workers EXCEPT ![nextWorker] =
                [IdleWorker EXCEPT !.pc = "check_availability", !.kind = "add",
                                   !.appid = c.v,
                                   !.endpoints = IF endpoints # <<>> THEN endpoints
                                                 ELSE DefaultEndpoints]]
         /\ nextWorker' = nextWorker + 1
         /\ lastCall' = Returned(env, "add", raw, "", TRUE, "")
         /\ UNCHANGED <<temp, installdir, rq, st, api>>

\* A select_endpoint_and_download that checks the status and not the list.
SelectRejectionStatusOnly(state, selected_endpoint) ==
    IF DictGet(state, "status", "") # "awaiting_endpoint_choice"
    THEN "Not awaiting endpoint choice"
    ELSE ""

\* The two checks of select_endpoint_and_download (manilua.py:326-332) on the
\* snapshot it read: the error it returns, "" when the selection is accepted.
SelectRejection(state, selected_endpoint) ==
    IF DictGet(state, "status", "") # "awaiting_endpoint_choice"
    THEN "Not awaiting endpoint choice"
    ELSE IF selected_endpoint \notin Range(DictGet(state, "available_endpoints", <<>>))
    THEN "Endpoint " \o selected_endpoint \o " not available"
    ELSE ""

\* select_endpoint_and_download (manilua.py:320-348)
select_endpoint_and_download(env, raw, selected_endpoint) ==
    LET c == IntOf(raw) IN
    IF ~c.ok
    THEN /\ lastCall' = Returned(env, "select", raw, selected_endpoint, FALSE, "Invalid appid")
         /\ UNCHANGED <<download_state, workers, nextWorker, temp, installdir, rq, st, api>>
    ELSE LET rej == SelectRejection(GetDownloadState(download_state, c.v),
                                    selected_endpoint) IN
         IF rej # ""
         THEN /\ lastCall' = Returned(env, "select", raw, selected_endpoint, FALSE, rej)
              /\ UNCHANGED <<download_state, workers, nextWorker, temp, installdir, rq, st, api>>
         ELSE /\ nextWorker <= env.threads
              /\ workers' = [workers EXCEPT ![nextWorker] =
                     [IdleWorker EXCEPT !.pc = "dl_checking", !.kind = "select",
                                        !.appid = c.v,
                                        !.endpoint = selected_endpoint]]
              /\ nextWorker' = nextWorker + 1
              /\ lastCall' = Returned(env, "select", raw, selected_endpoint, TRUE, "")
              /\ UNCHANGED <<download_state, temp, installdir, rq, st, api>>

\* ------------------------------------- _check_availability_and_download
\* What one probe (check_single_endpoint, manilua.py:362-376) comes to:
\* the endpoint, or None for "not available" and for a probe that raised.
ProbeResults == {"available", "unavailable", "error"}

\* manilua.py:351-356
CheckAvailability(w) ==
    /\ workers[w].pc = "check_availability"
    /\ WStep(w, [workers[w] EXCEPT !.pc = "check_availability2"],
             [status |-> "checking_availability",
              currentApi |-> "Checking all endpoints...",
              bytesRead |-> 0, totalBytes |-> 0])
    /\ lastCall' = NoCall
    /\ UNCHANGED <<nextWorker, temp, installdir, rq, st, api>>

\* manilua.py:378-381
CheckAvailability2(w) ==
    /\ workers[w].pc = "check_availability2"
    /\ WStep(w, [workers[w] EXCEPT !.pc = "fan_out"],
             [status |-> "checking_availability",
              currentApi |-> "Checking all endpoints..."])
    /\ lastCall' = NoCall
    /\ UNCHANGED <<nextWorker, temp, installdir, rq, st, api>>

\* The fan-out of manilua.py:383-401: every probe ends in some result, the
\* futures complete in some order, and the 15 s deadline cuts the collection
\* after the first k of them (k = all of them when it does not fire).
FanOut(w) ==
    /\ workers[w].pc = "fan_out"
    /\ \E order \in CompletionOrders(workers[w].endpoints),
          res \in [Range(workers[w].endpoints) -> ProbeResults],
          k \in 0..Len(workers[w].endpoints) :
            WLocal(w, [workers[w] EXCEPT
                          !.pc = "decide",
                          !.available_on = CollectAsCompleted(order, res, k)])
    /\ lastCall' = NoCall
    /\ UNCHANGED <<nextWorker, temp, installdir, rq, st, api>>

\* The executor itself raises (manilua.py:402-409): one synchronous probe of
\* the first candidate.
FanOutCrashed(w) ==
    /\ workers[w].pc = "fan_out"
    /\ \E r \in ProbeResults :
            WLocal(w, [workers[w] EXCEPT
                          !.pc = "decide",
                          !.available_on = IF r = "available"
                                           THEN <<workers[w].endpoints[1]>>
                                           ELSE <<>>])
    /\ lastCall' = NoCall
    /\ UNCHANGED <<nextWorker, temp, installdir, rq, st, api>>

\* A decision that asks for a choice whenever some endpoint is available.
DecideAlwaysAsks(w) ==
    /\ workers[w].pc = "decide"
    /\ LET av == workers[w].available_on IN
       IF Len(av) = 0
       THEN WStep(w, [workers[w] EXCEPT !.pc = "finished"],
                  [status |-> "failed",
                   error |-> "App " \o ToString(workers[w].appid)
                             \o " is not available on any endpoint"])
       ELSE WStep(w, [workers[w] EXCEPT !.pc = "finished"],
                  [status |-> "awaiting_endpoint_choice",
                   available_endpoints |-> av,
                   message |-> av])
    /\ lastCall' = NoCall
    /\ UNCHANGED <<nextWorker, temp, installdir, rq, st, api>>

\* manilua.py:411-427
Decide(w) ==
    /\ workers[w].pc = "decide"
    /\ LET av == workers[w].available_on IN
       IF Len(av) = 0
       THEN WStep(w, [workers[w] EXCEPT !.pc = "finished"],
                  [status |-> "failed",
                   error |-> "App " \o ToString(workers[w].appid)
                             \o " is not available on any endpoint"])
       ELSE IF Len(av) = 1
       THEN WLocal(w, [workers[w] EXCEPT !.pc = "dl_checking", !.endpoint = av[1]])
       ELSE WStep(w, [workers[w] EXCEPT !.pc = "finished"],
                  [status |-> "awaiting_endpoint_choice",
                   available_endpoints |-> av,
                   message |-> av])
    /\ lastCall' = NoCall
    /\ UNCHANGED <<nextWorker, temp, installdir, rq, st, api>>

\* --------------------------------------------------------- the file system
\* An archive entry name, in the parts the installer looks at.
Entry(dir, stem, ext) == [dir |-> dir, stem |-> stem, ext |-> ext]

EntryName(e) == e.dir \o e.stem \o e.ext

\* str.lower() of an extension
Lower(ext) == IF ext = ".LUA" THEN ".lua" ELSE ext

\* file_name.lower().endswith('.lua')
IsLua(e) == Lower(e.ext) = ".lua"

\* file_name.endswith('/')
IsDirEntry(e) == e.stem = "" /\ e.ext = "" /\ e.dir # ""

Archives ==
    { <<Entry("", "a", ".lua"), Entry("", "readme", ".txt")>>,
      <<Entry("", "readme", ".txt"), Entry("docs/", "notes", "")>>,
      <<Entry("docs/", "", "")>> }

LuaArchive ==
    [kind |-> "zip",
     entries |-> <<Entry("", "a", ".lua"), Entry("", "readme", ".txt")>>]

Payloads ==
    {RawPayload, BadZipPayload} \cup {[kind |-> "zip", entries |-> a] : a \in Archives}

\* The destination of one archive entry (manilua.py:238-243), in the target
\* directory.
DestFile(appid, e) ==
    IF IsLua(e) THEN e.stem \o e.ext
    ELSE ToString(appid) \o (IF e.ext = "" THEN ".txt" ELSE e.ext)

\* The loop of manilua.py:231-266 over the selected entries: the directory
\* after it and the list installed_files.
RECURSIVE ExtractEntries(_, _, _, _)
ExtractEntries(appid, entries, dir, installed) ==
    IF entries = <<>> THEN [dir |-> dir, installed |-> installed]
    ELSE LET e == Head(entries) IN
         IF IsDirEntry(e)
         THEN ExtractEntries(appid, Tail(entries), dir, installed)
         ELSE ExtractEntries(appid, Tail(entries),
                  DictUpdate(dir, [d \in {DestFile(appid, e)} |-> EntryName(e)]),
                  Append(installed, DestFile(appid, e)))

\* A selection that keeps every entry of the archive.
SelectAllFiles(file_list) == file_list

\* manilua.py:223-227
SelectLuaFiles(file_list) ==
    LET lua_files == SelectSeq(file_list, IsLua) IN
    IF lua_files = <<>> THEN file_list ELSE lua_files

\* ------------------------------------------ _download_from_manilua_backend
\* What the streaming response says before its body is read.
ResponseHeads ==
    {[code |-> 200, ctype |-> "application/octet-stream", clen |-> c] :
        c \in {"absent", "junk", "-1", "exact"}}
    \cup {[code |-> 200, ctype |-> "application/json", clen |-> "absent"],
          [code |-> 401, ctype |-> "application/json", clen |-> "absent"],
          [code |-> 404, ctype |-> "text/plain", clen |-> "absent"]}

\* int(resp.headers.get('Content-Length', '0')), 0 when it raises
\* (manilua.py:99-103).
ParseContentLength(clen) ==
    CASE clen = "absent" -> 0
      [] clen = "junk" -> 0
      [] clen = "-1" -> -1
      [] OTHER -> MaxBody

\* manilua.py:44-50; get_global_client always returns a client.
DownloadChecking(w) ==
    /\ workers[w].pc = "dl_checking"
    /\ WStep(w, [workers[w] EXCEPT !.pc = "dl_resolve"],
             [status |-> "checking",
              currentApi |-> "manilua (" \o workers[w].endpoint \o ")",
              bytesRead |-> 0, totalBytes |-> 0,
              endpoint |-> workers[w].endpoint])
    /\ lastCall' = NoCall
    /\ UNCHANGED <<nextWorker, temp, installdir, rq, st, api>>

\* manilua.py:66-95
DownloadResolve(w) ==
    /\ workers[w].pc = "dl_resolve"
    /\ WStep(w, [workers[w] EXCEPT !.pc = "dl_stream", !.bytes_read = 0,
                                   !.last_ts = 0],
             [status |-> "downloading", endpoint |-> workers[w].endpoint,
              bytesRead |-> 0, totalBytes |-> 0])
    /\ lastCall' = NoCall
    /\ UNCHANGED <<nextWorker, temp, installdir, rq, st, api>>

\* manilua.py:98-109: the response arrives; its status is not looked at.
DownloadStream(env, w) ==
    /\ workers[w].pc = "dl_stream"
    /\ \E head \in env.heads :
          WStep(w, [workers[w] EXCEPT !.pc = "dl_open", !.code = head.code,
                                      !.ctype = head.ctype,
                                      !.total = ParseContentLength(head.clen)],
                [status |-> "downloading", bytesRead |-> 0,
                 totalBytes |-> ParseContentLength(head.clen)])
    /\ lastCall' = NoCall
    /\ UNCHANGED <<nextWorker, temp, installdir, rq, st, api>>

\* manilua.py:98: stream_get or the connection raises.
DownloadStreamRaises(w) ==
    /\ workers[w].pc = "dl_stream"
    /\ WLocal(w, [workers[w] EXCEPT !.pc = "dl_cleanup", !.exc = "connection error"])
    /\ lastCall' = NoCall
    /\ UNCHANGED <<nextWorker, temp, installdir, rq, st, api>>

\* manilua.py:111: open(temp_zip_path, 'wb') creates or truncates the file.
DownloadOpen(w) ==
    /\ workers[w].pc = "dl_open"
    /\ temp' = [temp EXCEPT ![workers[w].appid] =
                   [@ EXCEPT !.exists = TRUE, !.bytes = 0, !.payload = NoPayload,
                             !.writers = @ \cup {w}]]
    /\ WLocal(w, [workers[w] EXCEPT !.pc = "dl_chunk"])
    /\ lastCall' = NoCall
    /\ UNCHANGED <<nextWorker, installdir, rq, st, api>>

\* A loop that writes its progress for every chunk.
ProgressAlwaysDue(last_state_update_ts, now_ts) == TRUE

\* manilua.py:125: whether a progress write is due.
ProgressDue(last_state_update_ts, now_ts) ==
    \/ last_state_update_ts = 0
    \/ now_ts - last_state_update_ts >= DOWNLOAD_PROGRESS_UPDATE_INTERVAL

\* manilua.py:112-131: one non-empty chunk.  time.time() is the wall clock: a
\* reading may be smaller than the one before it.
DownloadChunk(env, w) ==
    /\ workers[w].pc = "dl_chunk"
    /\ workers[w].bytes_read < env.body
    /\ \E now_ts \in 1..MaxTime :
          LET n == workers[w].bytes_read + 1
              nw == [workers[w] EXCEPT !.bytes_read = n, !.clock = now_ts] IN
          /\ IF ProgressDue(workers[w].last_ts, now_ts)
             THEN WStep(w, [nw EXCEPT !.last_ts = now_ts],
                        [status |-> "downloading", bytesRead |-> n,
                         totalBytes |-> workers[w].total])
             ELSE WLocal(w, nw)
          /\ temp' = IF w \in temp[workers[w].appid].writers
                     THEN [temp EXCEPT ![workers[w].appid].bytes = n]
                     ELSE temp
    /\ lastCall' = NoCall
    /\ UNCHANGED <<nextWorker, installdir, rq, st, api>>

\* manilua.py:112: reading the stream raises.
DownloadChunkRaises(w) ==
    /\ workers[w].pc = "dl_chunk"
    /\ WLocal(w, [workers[w] EXCEPT !.pc = "dl_cleanup", !.exc = "read error",
                                    !.clock = IdleWorker.clock, !.last_ts = 0])
    /\ temp' = [temp EXCEPT ![workers[w].appid].writers = @ \ {w}]
    /\ lastCall' = NoCall
    /\ UNCHANGED <<nextWorker, installdir, rq, st, api>>

\* The stream ends and the file is closed: what was received is some payload.
DownloadEnd(env, w) ==
    /\ workers[w].pc = "dl_chunk"
    /\ \E p \in env.payloads :
          temp' = IF w \in temp[workers[w].appid].writers
                  THEN [temp EXCEPT ![workers[w].appid] =
                           [@ EXCEPT !.payload = IF workers[w].bytes_read > 0
                                                 THEN p ELSE @,
                                     !.writers = @ \ {w}]]
                  ELSE temp
    /\ WLocal(w, [workers[w] EXCEPT !.pc = "dl_after", !.clock = IdleWorker.clock,
                                    !.last_ts = 0])
    /\ lastCall' = NoCall
    /\ UNCHANGED <<nextWorker, installdir, rq, st, api>>

\* A download without the check for an empty transfer.
DownloadAfterUnchecked(w) ==
    /\ workers[w].pc = "dl_after"
    /\ WStep(w, [workers[w] EXCEPT !.pc = "dl_processing"],
             [status |-> "downloading", bytesRead |-> workers[w].bytes_read,
              totalBytes |-> IF workers[w].total > 0 THEN workers[w].total
                             ELSE workers[w].bytes_read])
    /\ lastCall' = NoCall
    /\ UNCHANGED <<nextWorker, temp, installdir, rq, st, api>>

\* manilua.py:133-140
DownloadAfter(w) ==
    /\ workers[w].pc = "dl_after"
    /\ IF workers[w].bytes_read <= 0
       THEN WLocal(w, [workers[w] EXCEPT !.pc = "dl_cleanup",
                                         !.exc = "Empty download from endpoint"])
       ELSE WStep(w, [workers[w] EXCEPT !.pc = "dl_processing"],
                  [status |-> "downloading", bytesRead |-> workers[w].bytes_read,
                   totalBytes |-> IF workers[w].total > 0 THEN workers[w].total
                                  ELSE workers[w].bytes_read])
    /\ lastCall' = NoCall
    /\ UNCHANGED <<nextWorker, temp, installdir, rq, st, api>>

\* manilua.py:142-146
DownloadProcessing(w) ==
    /\ workers[w].pc = "dl_processing"
    /\ WStep(w, [workers[w] EXCEPT !.pc = "dl_inspect"],
             [status |-> "processing", bytesRead |-> workers[w].bytes_read,
              totalBytes |-> IF workers[w].total = 0 THEN workers[w].bytes_read
                             ELSE workers[w].total])
    /\ lastCall' = NoCall
    /\ UNCHANGED <<nextWorker, temp, installdir, rq, st, api>>

\* zipfile.is_zipfile(temp_zip_path): False for a missing file.
IsZipFile(f) == f.exists /\ f.payload.kind \in {"zip", "badzip"}

\* manilua.py:150-156
DownloadInspect(w) ==
    /\ workers[w].pc = "dl_inspect"
    /\ WLocal(w, [workers[w] EXCEPT
                     !.pc = IF IsZipFile(temp[workers[w].appid])
                            THEN "ex_start" ELSE "dl_single"])
    /\ lastCall' = NoCall
    /\ UNCHANGED <<nextWorker, temp, installdir, rq, st, api>>

\* The name of a single-file install (manilua.py:163), in the target directory.
SingleDest(appid) == ToString(appid) \o ".lua"

\* manilua.py:165-166: os.replace moves the scratch file onto the destination.
InstallSingle(w) ==
    /\ workers[w].pc = "dl_single"
    /\ temp[workers[w].appid].exists
    /\ installdir' = DictUpdate(installdir,
           [d \in {SingleDest(workers[w].appid)} |->
               temp[workers[w].appid].payload.kind])
    /\ temp' = [temp EXCEPT ![workers[w].appid] = NoTemp]
    /\ workers' = [workers EXCEPT ![w].pc = "dl_single_state"]
    /\ lastCall' = NoCall
    /\ UNCHANGED <<download_state, nextWorker, rq, st, api>>

\* manilua.py:167-174: os.replace raises, the copy is made and the removal of
\* the scratch file raises as well (logged, not fatal).
InstallSingleCopy(w) ==
    /\ workers[w].pc = "dl_single"
    /\ temp[workers[w].appid].exists
    /\ installdir' = DictUpdate(installdir,
           [d \in {SingleDest(workers[w].appid)} |->
               temp[workers[w].appid].payload.kind])
    /\ temp' = [temp EXCEPT ![workers[w].appid].stuck = TRUE]
    /\ WLocal(w, [workers[w] EXCEPT !.pc = "dl_single_state"])
    /\ lastCall' = NoCall
    /\ UNCHANGED <<nextWorker, rq, st, api>>

\* manilua.py:167-170, 182-184: os.replace and the copy both raise (always so
\* when the scratch file is gone).
InstallSingleRaises(w) ==
    /\ workers[w].pc = "dl_single"
    /\ WLocal(w, [workers[w] EXCEPT !.pc = "dl_cleanup", !.exc = "install error"])
    /\ lastCall' = NoCall
    /\ UNCHANGED <<nextWorker, temp, installdir, rq, st, api>>

\* An install of a single file that records the status and not the file.
InstallSingleStateOnly(w) ==
    /\ workers[w].pc = "dl_single_state"
    /\ WStep(w, [workers[w] EXCEPT !.pc = "dl_done",
                                   !.installed = <<SingleDest(workers[w].appid)>>],
             [status |-> "installing"])
    /\ lastCall' = NoCall
    /\ UNCHANGED <<nextWorker, temp, installdir, rq, st, api>>

\* manilua.py:176-180
InstallSingleState(w) ==
    /\ workers[w].pc = "dl_single_state"
    /\ WStep(w, [workers[w] EXCEPT !.pc = "dl_done",
                                   !.installed = <<SingleDest(workers[w].appid)>>],
             [status |-> "installing",
              installedFiles |-> <<SingleDest(workers[w].appid)>>,
              installedPath |-> SingleDest(workers[w].appid)])
    /\ lastCall' = NoCall
    /\ UNCHANGED <<nextWorker, temp, installdir, rq, st, api>>

\* ------------------------------------------- _extract_and_add_lua_from_zip
\* manilua.py:216
ExtractStart(w) ==
    /\ workers[w].pc = "ex_start"
    /\ WStep(w, [workers[w] EXCEPT !.pc = "ex_open"], [status |-> "extracting"])
    /\ lastCall' = NoCall
    /\ UNCHANGED <<nextWorker, temp, installdir, rq, st, api>>

\* manilua.py:219-227: the archive opens and its entries are selected.
ExtractOpen(w) ==
    /\ workers[w].pc = "ex_open"
    /\ temp[workers[w].appid].exists
    /\ temp[workers[w].appid].payload.kind = "zip"
    /\ WLocal(w, [workers[w] EXCEPT
                     !.pc = "ex_installing",
                     !.entries = SelectLuaFiles(temp[workers[w].appid].payload.entries)])
    /\ lastCall' = NoCall
    /\ UNCHANGED <<nextWorker, temp, installdir, rq, st, api>>

\* manilua.py:219, 277-282: the file is gone or is no archive ZipFile reads.
ExtractOpenRaises(w) ==
    /\ workers[w].pc = "ex_open"
    /\ ~(temp[workers[w].appid].exists /\ temp[workers[w].appid].payload.kind = "zip")
    /\ WLocal(w, [workers[w] EXCEPT
                     !.pc = "dl_cleanup",
                     !.exc = IF temp[workers[w].appid].exists
                             THEN "Invalid ZIP file"
                             ELSE "No such file"])
    /\ lastCall' = NoCall
    /\ UNCHANGED <<nextWorker, temp, installdir, rq, st, api>>

\* manilua.py:229
ExtractInstalling(w) ==
    /\ workers[w].pc = "ex_installing"
    /\ WStep(w, [workers[w] EXCEPT !.pc = "ex_files"], [status |-> "installing"])
    /\ lastCall' = NoCall
    /\ UNCHANGED <<nextWorker, temp, installdir, rq, st, api>>

\* manilua.py:231-266
ExtractFiles(w) ==
    /\ workers[w].pc = "ex_files"
    /\ LET r == ExtractEntries(workers[w].appid, workers[w].entries, installdir, <<>>) IN
       /\ installdir' = r.dir
       /\ WLocal(w, [workers[w] EXCEPT !.pc = "ex_report", !.installed = r.installed])
    /\ lastCall' = NoCall
    /\ UNCHANGED <<nextWorker, temp, rq, st, api>>

\* A report that accepts an extraction that wrote nothing.
ExtractReportUnchecked(w) ==
    /\ workers[w].pc = "ex_report"
    /\ WStep(w, [workers[w] EXCEPT !.pc = "ex_remove"],
             [installedFiles |-> workers[w].installed,
              installedPath |-> IF workers[w].installed = <<>> THEN "None"
                                ELSE workers[w].installed[1]])
    /\ lastCall' = NoCall
    /\ UNCHANGED <<nextWorker, temp, installdir, rq, st, api>>

\* manilua.py:268-275
ExtractReport(w) ==
    /\ workers[w].pc = "ex_report"
    /\ IF workers[w].installed = <<>>
       THEN WLocal(w, [workers[w] EXCEPT
                          !.pc = "dl_cleanup",
                          !.exc = "No files were successfully extracted from ZIP"])
       ELSE WStep(w, [workers[w] EXCEPT !.pc = "ex_remove"],
                  [installedFiles |-> workers[w].installed,
                   installedPath |-> workers[w].installed[1]])
    /\ lastCall' = NoCall
    /\ UNCHANGED <<nextWorker, temp, installdir, rq, st, api>>

\* manilua.py:158-159: the scratch file is removed when it is still there.
ExtractRemove(w) ==
    /\ workers[w].pc = "ex_remove"
    /\ temp' = [temp EXCEPT ![workers[w].appid] = NoTemp]
    /\ workers' = [workers EXCEPT ![w].pc = "dl_done"]
    /\ lastCall' = NoCall
    /\ UNCHANGED <<download_state, nextWorker, installdir, rq, st, api>>

\* manilua.py:159: os.remove raises, into the handler of line 192.
ExtractRemoveRaises(w) ==
    /\ workers[w].pc = "ex_remove"
    /\ temp[workers[w].appid].exists
    /\ temp' = [temp EXCEPT ![workers[w].appid].stuck = TRUE]
    /\ WLocal(w, [workers[w] EXCEPT !.pc = "dl_cleanup", !.exc = "remove error"])
    /\ lastCall' = NoCall
    /\ UNCHANGED <<nextWorker, installdir, rq, st, api>>

\* ---------------------------------------------------- how a download ends
\* manilua.py:186-190
DownloadDone(w) ==
    /\ workers[w].pc = "dl_done"
    /\ WStep(w, [workers[w] EXCEPT !.pc = "finished"],
             [status |-> "done", success |-> TRUE,
              api |-> "manilua (" \o workers[w].endpoint \o ")"])
    /\ lastCall' = NoCall
    /\ UNCHANGED <<nextWorker, temp, installdir, rq, st, api>>

\* manilua.py:192-195: the handler removes the scratch file when there is one.
DownloadCleanup(w) ==
    /\ workers[w].pc = "dl_cleanup"
    /\ temp' = [temp EXCEPT ![workers[w].appid] = NoTemp]
    /\ workers' = [workers EXCEPT ![w].pc = "dl_failed"]
    /\ lastCall' = NoCall
    /\ UNCHANGED <<download_state, nextWorker, installdir, rq, st, api>>

\* manilua.py:196-197: os.remove raises; logged, and the file stays.
DownloadCleanupRaises(w) ==
    /\ workers[w].pc = "dl_cleanup"
    /\ temp[workers[w].appid].exists
    /\ temp' = [temp EXCEPT ![workers[w].appid].stuck = TRUE]
    /\ WLocal(w, [workers[w] EXCEPT !.pc = "dl_failed"])
    /\ lastCall' = NoCall
    /\ UNCHANGED <<nextWorker, installdir, rq, st, api>>

\* A handler that ends the thread without recording the failure.
DownloadFailedSilently(w) ==
    /\ workers[w].pc = "dl_failed"
    /\ WLocal(w, Finished(workers[w], workers[w].last))
    /\ lastCall' = NoCall
    /\ UNCHANGED <<nextWorker, temp, installdir, rq, st, api>>

\* manilua.py:199-202
DownloadFailed(w) ==
    /\ workers[w].pc = "dl_failed"
    /\ WStep(w, [workers[w] EXCEPT !.pc = "finished"],
             [status |-> "failed",
              error |-> "Download failed: " \o workers[w].exc])
    /\ lastCall' = NoCall
    /\ UNCHANGED <<nextWorker, temp, installdir, rq, st, api>>

\* ------------------------------------------------------- the orchestrator
\* What the callers and the network offer in a specification: the number of
\* threads started, the arguments of the calls, the responses and payloads of
\* the server, the chunks of a body, and whether lastCall is kept.
ConcurrentEnv ==
    [adds |-> MaxWorkers, threads |-> MaxWorkers, observed |-> FALSE,
     raws |-> {"1", "abc"}, lists |-> {<<"ryuu", "manilua">>},
     selects |-> {"manilua", "donation"},
     heads |-> {h \in ResponseHeads : h.code = 200 /\ h.clen = "absent"},
     payloads |-> {RawPayload, LuaArchive},
     body |-> MaxConcurrentBody]

\* One add_via_lua, its worker, and the selection that may follow it.
SoloEnv ==
    [adds |-> 1, threads |-> MaxWorkers, observed |-> TRUE,
     raws |-> RawAppIds, lists |-> EndpointLists,
     selects |-> EndpointNames,
     heads |-> ResponseHeads, payloads |-> Payloads, body |-> MaxBody]

WorkerStep(env, w) ==
    \/ CheckAvailability(w) \/ CheckAvailability2(w)
    \/ FanOut(w) \/ FanOutCrashed(w) \/ Decide(w)
    \/ DownloadChecking(w) \/ DownloadResolve(w)
    \/ DownloadStream(env, w) \/ DownloadStreamRaises(w)
    \/ DownloadOpen(w)
    \/ DownloadChunk(env, w) \/ DownloadChunkRaises(w) \/ DownloadEnd(env, w)
    \/ DownloadAfter(w) \/ DownloadProcessing(w) \/ DownloadInspect(w)
    \/ InstallSingle(w) \/ InstallSingleCopy(w) \/ InstallSingleRaises(w)
    \/ InstallSingleState(w)
    \/ ExtractStart(w) \/ ExtractOpen(w) \/ ExtractOpenRaises(w)
    \/ ExtractInstalling(w) \/ ExtractFiles(w) \/ ExtractReport(w)
    \/ ExtractRemove(w) \/ ExtractRemoveRaises(w)
    \/ DownloadDone(w) \/ DownloadCleanup(w) \/ DownloadCleanupRaises(w)
    \/ DownloadFailed(w)

NextIn(env) ==
    \/ \E raw \in env.raws, endpoints \in env.lists : add_via_lua(env, raw, endpoints)
    \/ \E raw \in env.raws, e \in env.selects :
          select_endpoint_and_download(env, raw, e)
    \/ \E w \in 1..MaxWorkers : WorkerStep(env, w)

Next == NextIn(ConcurrentEnv)

\* Any number of threads, any interleaving.
Spec == Init /\ [][Next]_vars

\* Spec with every started thread scheduled again and again.
FairSpec == Spec /\ \A w \in 1..MaxWorkers : WF_vars(WorkerStep(ConcurrentEnv, w))

\* One item from add_via_lua to the end of its download, over every response
\* and payload, with what each call returned kept in lastCall.
SoloSpec == Init /\ [][NextIn(SoloEnv)]_vars

\* ------------------------------------------------ steps that raise elsewhere
\* A thread whose exception nobody handles: it ends without a write.
AvailabilityCheckUnhandled(w) ==
    /\ workers[w].kind = "add"
    /\ workers[w].pc \in {"check_availability2", "decide"}
    /\ WLocal(w, Finished(workers[w], workers[w].last))
    /\ lastCall' = NoCall
    /\ UNCHANGED <<nextWorker, temp, installdir, rq, st, api>>

\* manilua.py:302-309: an exception leaves _check_availability_and_download
\* (the import of line 360, or the join of line 423 over endpoint names that
\* are no strings) and the wrapper of the thread records it.
AvailabilityCheckCrashed(w) ==
    /\ workers[w].kind = "add"
    /\ workers[w].pc \in {"check_availability2", "decide"}
    /\ workers[w].pc = "decide" => Len(workers[w].available_on) > 1
    /\ WStep(w, [workers[w] EXCEPT !.pc = "finished"],
             [status |-> "failed",
              error |-> "Availability check crashed: error"])
    /\ lastCall' = NoCall
    /\ UNCHANGED <<nextWorker, temp, installdir, rq, st, api>>

\* manilua.py:66-93, 204-209: building the request raises, before the scratch
\* file is named; the outer handler records it.
DownloadResolveRaises(w) ==
    /\ workers[w].pc = "dl_resolve"
    /\ WStep(w, [workers[w] EXCEPT !.pc = "finished"],
             [status |-> "failed", error |-> "Backend error: error"])
    /\ lastCall' = NoCall
    /\ UNCHANGED <<nextWorker, temp, installdir, rq, st, api>>

\* What the extraction of one entry meets: it is written, zip_file.read
\* raises (manilua.py:236), or the write of the destination raises after the
\* file was opened (manilua.py:249-259).
EntryOutcomes == {"written", "read_raises", "write_raises"}

\* The loop of manilua.py:231-266 when entries raise: the entry is logged and
\* skipped (manilua.py:264-266).
RECURSIVE ExtractEntriesRaising(_, _, _, _, _)
ExtractEntriesRaising(appid, entries, outcomes, dir, installed) ==
    IF entries = <<>> THEN [dir |-> dir, installed |-> installed]
    ELSE LET e == Head(entries)
             o == Head(outcomes)
         IN IF IsDirEntry(e) \/ o = "read_raises"
            THEN ExtractEntriesRaising(appid, Tail(entries), Tail(outcomes),
                                       dir, installed)
            ELSE IF o = "write_raises"
            THEN ExtractEntriesRaising(appid, Tail(entries), Tail(outcomes),
                     DictUpdate(dir, [d \in {DestFile(appid, e)} |-> "partial"]),
                     installed)
            ELSE ExtractEntriesRaising(appid, Tail(entries), Tail(outcomes),
                     DictUpdate(dir, [d \in {DestFile(appid, e)} |-> EntryName(e)]),
                     Append(installed, DestFile(appid, e)))

\* manilua.py:231-266 with at least one entry that raises.
ExtractFilesRaising(w) ==
    /\ workers[w].pc = "ex_files"
    /\ \E outcomes \in [1..Len(workers[w].entries) -> EntryOutcomes] :
          /\ \E i \in 1..Len(workers[w].entries) :
                /\ outcomes[i] # "written"
                /\ ~IsDirEntry(workers[w].entries[i])
          /\ LET r == ExtractEntriesRaising(workers[w].appid, workers[w].entries,
                                            outcomes, installdir, <<>>) IN
             /\ installdir' = r.dir
             /\ WLocal(w, [workers[w] EXCEPT !.pc = "ex_report",
                                             !.installed = r.installed])
    /\ lastCall' = NoCall
    /\ UNCHANGED <<nextWorker, temp, rq, st, api>>

FaultNext ==
    \/ NextIn(SoloEnv)
    \/ \E w \in 1..MaxWorkers :
          \/ AvailabilityCheckCrashed(w)
          \/ DownloadResolveRaises(w)
          \/ ExtractFilesRaising(w)

\* SoloSpec with the exceptions that the handlers of the download itself do
\* not see, and with archive entries that cannot be extracted.
FaultSpec == Init /\ [][FaultNext]_vars

\* ------------------------------------------------ the fan-out, probe by probe
\* What the request of one probe meets: get_global_client or client.get
\* raises, the request fails after its retries, or it succeeds with a body
\* that is a string and no JSON, JSON and no object, or an object that says
\* available: true, available: false, nothing, or the same nested under data.
ProbeResponses ==
    {"raises", "failed", "not_json", "not_dict",
     "available", "not_available", "no_field", "nested_available"}

\* APIManager.check_availability (api_manager.py:26-63)
check_availability(resp) ==
    CASE resp \in {"available", "nested_available"} ->
            [success |-> TRUE, available |-> TRUE]
      [] resp \in {"not_available", "no_field"} ->
            [success |-> TRUE, available |-> FALSE]
      [] resp = "not_json" ->
            [success |-> FALSE, error |-> "Invalid response format"]
      [] OTHER -> [success |-> FALSE, error |-> resp]

\* check_single_endpoint (manilua.py:362-376): the endpoint, or "" for None.
check_single_endpoint(endpoint, resp) ==
    LET result == check_availability(resp) IN
    IF DictGet(result, "success", FALSE) /\ DictGet(result, "available", FALSE)
    THEN endpoint
    ELSE ""

\* manilua.py:384-386: every candidate is submitted to the executor, whose
\* queue holds it until one of its threads takes it.
FanSubmit(w) ==
    /\ workers[w].pc = "fan_out"
    /\ WLocal(w, [workers[w] EXCEPT !.pc = "fan_collect",
                                    !.pending = workers[w].endpoints])
    /\ lastCall' = NoCall
    /\ UNCHANGED <<nextWorker, temp, installdir, rq, st, api>>

\* An executor that starts a thread for every probe submitted.
ProbeStartsUnbounded(w) ==
    /\ workers[w].pending # <<>>
    /\ WLocal(w, [workers[w] EXCEPT !.pending = Tail(@),
                                    !.running = @ \cup {Head(workers[w].pending)}])
    /\ lastCall' = NoCall
    /\ UNCHANGED <<nextWorker, temp, installdir, rq, st, api>>

\* A thread of the executor takes the next probe of the queue; the executor
\* has at most max_workers threads (manilua.py:384).
ProbeStarts(w) ==
    /\ workers[w].pending # <<>>
    /\ Cardinality(workers[w].running) < max_workers
    /\ WLocal(w, [workers[w] EXCEPT !.pending = Tail(@),
                                    !.running = @ \cup {Head(workers[w].pending)}])
    /\ lastCall' = NoCall
    /\ UNCHANGED <<nextWorker, temp, installdir, rq, st, api>>

\* A fan-out that a failing probe brings to its end with nothing collected.
ProbeReturnsAborting(env, w, endpoint, resp) ==
    /\ endpoint \in workers[w].running
    /\ LET result == check_single_endpoint(endpoint, resp) IN
       WLocal(w, [workers[w] EXCEPT
                     !.running = IF result = "" THEN {} ELSE @ \ {endpoint},
                     !.pending = IF result = "" THEN <<>> ELSE @,
                     !.available_on =
                         IF result = "" THEN <<>>
                         ELSE IF workers[w].pc = "fan_collect"
                         THEN Append(@, result) ELSE @,
                     !.probe = IF env.observed
                               THEN [endpoint |-> endpoint, resp |-> resp]
                               ELSE @])
    /\ lastCall' = NoCall
    /\ UNCHANGED <<nextWorker, temp, installdir, rq, st, api>>

\* One probe ends (manilua.py:362-376). While the worker iterates
\* as_completed its result is collected (manilua.py:389-393); after the
\* deadline nobody reads it. probe is the probe that ended last (history
\* variable).
ProbeReturns(env, w, endpoint, resp) ==
    /\ endpoint \in workers[w].running
    /\ LET result == check_single_endpoint(endpoint, resp) IN
       WLocal(w, [workers[w] EXCEPT
                     !.running = @ \ {endpoint},
                     !.available_on =
                         IF workers[w].pc = "fan_collect" /\ result # ""
                         THEN Append(@, result) ELSE @,
                     !.probe = IF env.observed
                               THEN [endpoint |-> endpoint, resp |-> resp]
                               ELSE @])
    /\ lastCall' = NoCall
    /\ UNCHANGED <<nextWorker, temp, installdir, rq, st, api>>

\* manilua.py:389: as_completed has yielded every future.
FanCollected(w) ==
    /\ workers[w].pc = "fan_collect"
    /\ workers[w].running = {}
    /\ workers[w].pending = <<>>
    /\ WLocal(w, [workers[w] EXCEPT !.pc = "fan_exit"])
    /\ lastCall' = NoCall
    /\ UNCHANGED <<nextWorker, temp, installdir, rq, st, api>>

\* manilua.py:397-401: the 15 s deadline of as_completed fires; cancel()
\* takes the probes that no thread has started out of the queue and does
\* nothing to a probe that is running.
FanDeadline(w) ==
    /\ workers[w].pc = "fan_collect"
    /\ workers[w].running # {} \/ workers[w].pending # <<>>
    /\ WLocal(w, [workers[w] EXCEPT !.pc = "fan_exit", !.timed_out = TRUE,
                                    !.pending = <<>>])
    /\ lastCall' = NoCall
    /\ UNCHANGED <<nextWorker, temp, installdir, rq, st, api>>

\* manilua.py:384: leaving the with block is executor.shutdown(wait=True),
\* which returns when no probe is running.
FanExit(w) ==
    /\ workers[w].pc = "fan_exit"
    /\ workers[w].running = {}
    /\ WLocal(w, [workers[w] EXCEPT !.pc = "decide", !.timed_out = FALSE])
    /\ lastCall' = NoCall
    /\ UNCHANGED <<nextWorker, temp, installdir, rq, st, api>>

ProbeEnv ==
    [adds |-> MaxWorkers, threads |-> MaxWorkers, observed |-> FALSE,
     raws |-> {"1", "2"}, lists |-> EndpointLists]

\* The endpoint names the server may list (api_manager.py:80-90).
CandidateNames ==
    <<"oureveryday", "ryuu", "manilua", "donation", "alpha", "beta", "gamma">>

\* One add_via_lua with more candidates than the executor has threads, or
\* with two.
PoolEnv ==
    [adds |-> 1, threads |-> 1, observed |-> TRUE,
     raws |-> {"1"},
     lists |-> {SubSeq(CandidateNames, 1, MaxCandidates), <<"ryuu", "manilua">>}]

ProbeNextIn(env) ==
    \/ \E raw \in env.raws, endpoints \in env.lists :
          add_via_lua(env, raw, endpoints)
    \/ \E w \in 1..MaxWorkers :
          \/ CheckAvailability(w) \/ CheckAvailability2(w)
          \/ FanSubmit(w) \/ ProbeStarts(w)
          \/ FanCollected(w) \/ FanDeadline(w) \/ FanExit(w)
          \/ FanOutCrashed(w) \/ Decide(w)
          \/ \E e \in workers[w].running, resp \in ProbeResponses :
                ProbeReturns(env, w, e, resp)

ProbeNext == ProbeNextIn(ProbeEnv)

\* add_via_lua and its worker up to the decision, the probes of the fan-out
\* as threads of their own.
ProbeSpec == Init /\ [][ProbeNext]_vars

\* The fan-out of one item over a list longer than the executor is wide.
PoolSpec == Init /\ [][ProbeNextIn(PoolEnv)]_vars

\* ----------------------------------------------------------- remove_via_lua
\* Files that other programs leave in the install directory.
ExternalNames == {"1.lua.disabled", "1_7.manifest", "11_7.manifest"}

\* A file name up to and including its first "_", and its last extension.
NameParts(filename) ==
    CASE filename = "1_7.manifest" -> [head |-> "1_", ext |-> ".manifest"]
      [] filename = "11_7.manifest" -> [head |-> "11_", ext |-> ".manifest"]
      [] filename = "1.lua.disabled" -> [head |-> "", ext |-> ".disabled"]
      [] OTHER -> [head |-> "", ext |-> ""]

\* filename.startswith(f'{appid}_') and filename.endswith('.manifest')
IsManifestOf(appid, filename) ==
    /\ NameParts(filename).head = ToString(appid) \o "_"
    /\ NameParts(filename).ext = ".manifest"

\* The files remove_via_lua looks for (manilua.py:439-452).
RemovalTargets(appid, dir) ==
    {f \in DOMAIN dir :
        \/ f = ToString(appid) \o ".lua"
        \/ f = ToString(appid) \o ".lua.disabled"
        \/ IsManifestOf(appid, f)}

\* The place of a file in the order of the removals: the .lua file, the
\* disabled file, then the manifests.
RemovalRank(appid, f) ==
    IF f = ToString(appid) \o ".lua" THEN 1
    ELSE IF f = ToString(appid) \o ".lua.disabled" THEN 2
    ELSE 3

\* os.remove of every file in names
DictRemove(d, names) == [k \in (DOMAIN d) \ names |-> d[k]]

NoFilesFound(appid) == "No files found for app " \o ToString(appid)

\* A removal that reports the disabled file as removed and leaves it.
remove_via_lua_keeps_disabled(env, raw) ==
    LET c == IntOf(raw) IN
    IF ~c.ok
    THEN /\ lastCall' = Returned(env, "remove", raw, "", FALSE, "Invalid appid")
         /\ UNCHANGED <<download_state, workers, nextWorker, temp, installdir, rq, st, api>>
    ELSE LET removed_files == RemovalTargets(c.v, installdir) IN
         /\ installdir' = DictRemove(installdir,
                              removed_files \ {ToString(c.v) \o ".lua.disabled"})
         /\ lastCall' = IF removed_files # {}
                        THEN Returned(env, "remove", raw, "", TRUE, "")
                        ELSE Returned(env, "remove", raw, "", FALSE, NoFilesFound(c.v))
         /\ UNCHANGED <<download_state, workers, nextWorker, temp, rq, st, api>>

\* A removal that uses the id as it was passed, without int().
remove_via_lua_unconverted(env, raw) ==
    LET c == IntOf(raw) IN
    IF ~c.ok
    THEN /\ lastCall' = Returned(env, "remove", raw, "", FALSE,
                                 "No files found for app " \o raw)
         /\ UNCHANGED <<download_state, workers, nextWorker, temp, installdir, rq, st, api>>
    ELSE LET removed_files == RemovalTargets(c.v, installdir) IN
         /\ installdir' = DictRemove(installdir, removed_files)
         /\ lastCall' = IF removed_files # {}
                        THEN Returned(env, "remove", raw, "", TRUE, "")
                        ELSE Returned(env, "remove", raw, "", FALSE, NoFilesFound(c.v))
         /\ UNCHANGED <<download_state, workers, nextWorker, temp, rq, st, api>>

\* remove_via_lua when no file operation raises (manilua.py:429-462).
remove_via_lua(env, raw) ==
    LET c == IntOf(raw) IN
    IF ~c.ok
    THEN /\ lastCall' = Returned(env, "remove", raw, "", FALSE, "Invalid appid")
         /\ UNCHANGED <<download_state, workers, nextWorker, temp, installdir, rq, st, api>>
    ELSE LET removed_files == RemovalTargets(c.v, installdir) IN
         /\ installdir' = DictRemove(installdir, removed_files)
         /\ lastCall' = IF removed_files # {}
                        THEN Returned(env, "remove", raw, "", TRUE, "")
                        ELSE Returned(env, "remove", raw, "", FALSE, NoFilesFound(c.v))
         /\ UNCHANGED <<download_state, workers, nextWorker, temp, rq, st, api>>

\* remove_via_lua when the os.remove of one of the files raises
\* (manilua.py:464-466): the files before it are gone, the error is returned.
remove_via_lua_raises(env, raw) ==
    LET c == IntOf(raw) IN
    /\ c.ok
    /\ \E f \in RemovalTargets(c.v, installdir) :
          installdir' = DictRemove(installdir,
                            {g \in RemovalTargets(c.v, installdir) :
                                RemovalRank(c.v, g) < RemovalRank(c.v, f)})
    /\ lastCall' = Returned(env, "remove", raw, "", FALSE, "remove error")
    /\ UNCHANGED <<download_state, workers, nextWorker, temp, rq, st, api>>

\* Another program writes one of its files into the install directory.
PlaceExternalFile(name) ==
    /\ name \notin DOMAIN installdir
    /\ installdir' = DictUpdate(installdir, [f \in {name} |-> "external"])
    /\ lastCall' = NoCall
    /\ UNCHANGED <<download_state, workers, nextWorker, temp, rq, st, api>>

\* Archives beside those of Archives: two .lua entries and another entry,
\* .lua entries of one base name in two directories, an upper-case extension.
MoreArchives ==
    { <<Entry("", "a", ".lua"), Entry("", "b", ".lua"), Entry("", "readme", ".txt")>>,
      <<Entry("x/", "a", ".lua"), Entry("y/", "a", ".lua")>>,
      <<Entry("docs/", "", ""), Entry("", "C", ".LUA"), Entry("", "icon", ".png")>>,
      <<Entry("", "readme", ".txt"), Entry("", "icon", ".png")>> }

\* One add_via_lua, the download it leads to over every archive, and the
\* removals.
InstallEnv ==
    [adds |-> 1, threads |-> 1, observed |-> TRUE,
     raws |-> {"1", "abc"}, lists |-> {<<"manilua">>},
     selects |-> {"manilua"},
     heads |-> {h \in ResponseHeads : h.code = 200 /\ h.clen = "absent"},
     payloads |-> Payloads \cup {[kind |-> "zip", entries |-> a] : a \in MoreArchives},
     body |-> MaxConcurrentBody]

InstallNext ==
    \/ NextIn(InstallEnv)
    \/ \E raw \in InstallEnv.raws : remove_via_lua(InstallEnv, raw)
    \/ \E raw \in InstallEnv.raws : remove_via_lua_raises(InstallEnv, raw)
    \/ \E name \in ExternalNames : PlaceExternalFile(name)

\* Installing and removing the files of one item.
InstallSpec == Init /\ [][InstallNext]_vars

\* ------------------------------------------------- the store, by reference
\* The updates the threads pass to _set_download_state (manilua.py:291-295,
\* 199-202, 420-424), list values written out.
StoreUpdates ==
    { [status |-> Str("queued"), bytesRead |-> Str("0")],
      [status |-> Str("failed"), error |-> Str("e")],
      [status |-> Str("awaiting_endpoint_choice"),
       available_endpoints |-> Lst(<<"ryuu", "manilua">>)] }

\* The keys of an update whose value is a list (at most one in StoreUpdates).
ListKeys(update) == {k \in DOMAIN update : update[k].list}

\* What a dict object says, references followed.
Deep(d, lists) ==
    [k \in DOMAIN d |-> IF d[k].ref = 0 THEN Str(d[k].s) ELSE Lst(lists[d[k].ref])]

\* The entry of appid as a reader that follows every reference sees it.
StoredValue(s, appid) ==
    IF s.entry[appid] = 0 THEN EmptyDict
    ELSE Deep(s.dicts[s.entry[appid]], s.lists)

StoreOthers == <<download_state, workers, nextWorker, temp, installdir, lastCall, rq, api>>

\* A thread calls _set_download_state(appid, update) (manilua.py:27).
SetCall(t, appid, update) ==
    /\ st.th[t].pc = "idle"
    /\ st.ops < MaxStoreOps
    /\ st' = [st EXCEPT !.th[t] = [pc |-> "acquire", appid |-> appid,
                                   update |-> update, state |-> 0],
                        !.ops = @ + 1]
    /\ UNCHANGED StoreOthers

\* A thread that enters the block without the lock being free.
SetAcquireUnlocked(t) ==
    /\ st.th[t].pc = "acquire"
    /\ st' = [st EXCEPT !.lock = t, !.th[t].pc = "get"]
    /\ UNCHANGED StoreOthers

\* with self._download_lock (manilua.py:28)
SetAcquire(t) ==
    /\ st.th[t].pc = "acquire"
    /\ st.lock = 0
    /\ st' = [st EXCEPT !.lock = t, !.th[t].pc = "get"]
    /\ UNCHANGED StoreOthers

\* state = self._download_state.get(appid, {}) (manilua.py:29): the stored
\* dict object itself, or a new empty one.
SetGet(t) ==
    /\ st.th[t].pc = "get"
    /\ LET a == st.th[t].appid IN
       st' = IF st.entry[a] # 0
             THEN [st EXCEPT !.th[t].state = st.entry[a], !.th[t].pc = "update"]
             ELSE [st EXCEPT !.dicts = Append(@, EmptyDict),
                             !.th[t].state = Len(st.dicts) + 1,
                             !.th[t].pc = "update"]
    /\ UNCHANGED StoreOthers

\* state.update(update) (manilua.py:30), in place.
SetUpdate(t) ==
    /\ st.th[t].pc = "update"
    /\ LET u == st.th[t].update
           n == Len(st.lists) + 1
           held == [k \in DOMAIN u |-> IF u[k].list THEN ListRef(n) ELSE Scalar(u[k].s)]
       IN st' = [st EXCEPT
                    !.lists = IF ListKeys(u) = {} THEN @
                              ELSE Append(@, u[CHOOSE k \in ListKeys(u) : TRUE].l),
                    !.dicts[st.th[t].state] = DictUpdate(@, held),
                    !.applied[st.th[t].appid] = Append(@, u),
                    !.th[t].pc = "assign"]
    /\ UNCHANGED StoreOthers

\* self._download_state[appid] = state (manilua.py:31), and the lock released.
SetAssign(t) ==
    /\ st.th[t].pc = "assign"
    /\ st' = [st EXCEPT !.entry[st.th[t].appid] = st.th[t].state,
                        !.lock = IF @ = t THEN 0 ELSE @,
                        !.th[t] = IdleStoreThread]
    /\ UNCHANGED StoreOthers

\* _get_download_state(appid) (manilua.py:33-35): dict.copy() of the entry, or
\* of a new empty dict; the values of the copy are those of the entry.
GetCall(appid) ==
    /\ st.lock = 0
    /\ st' = [st EXCEPT !.snap =
                 [taken |-> TRUE, appid |-> appid,
                  d |-> IF st.entry[appid] = 0 THEN EmptyDict
                        ELSE st.dicts[st.entry[appid]],
                  edits |-> st.snap.edits]]
    /\ UNCHANGED StoreOthers

\* The caller assigns to a key of the snapshot it holds.
SnapAssign(k, v) ==
    /\ st.snap.taken
    /\ st.snap.edits < MaxSnapEdits
    /\ st' = [st EXCEPT !.snap.d = DictUpdate(@, [x \in {k} |-> Scalar(v)]),
                        !.snap.edits = @ + 1]
    /\ UNCHANGED StoreOthers

\* The caller appends to a list it finds in the snapshot it holds.
SnapAppend(k, v) ==
    /\ st.snap.taken
    /\ st.snap.edits < MaxSnapEdits
    /\ k \in DOMAIN st.snap.d
    /\ st.snap.d[k].ref # 0
    /\ st' = [st EXCEPT !.lists[st.snap.d[k].ref] = Append(@, v),
                        !.snap.edits = @ + 1]
    /\ UNCHANGED StoreOthers

StoreNext ==
    \/ \E t \in 1..MaxStoreThreads, a \in {1}, u \in StoreUpdates : SetCall(t, a, u)
    \/ \E t \in 1..MaxStoreThreads :
          SetAcquire(t) \/ SetGet(t) \/ SetUpdate(t) \/ SetAssign(t)
    \/ \E a \in AppIds : GetCall(a)

\* Threads that write the entry of one id, and a reader.
StoreSpec == Init /\ [][StoreNext]_vars

SnapshotNext ==
    \/ StoreNext
    \/ \E k \in {"status", "note"} : SnapAssign(k, "x")
    \/ \E k \in {"available_endpoints"} : SnapAppend(k, "x")

\* StoreSpec with a caller that changes the snapshots it is given.
SnapshotSpec == Init /\ [][SnapshotNext]_vars

\* ------------------------------------------------ HTTPClient._retry_request
\* What one attempt meets: a connection-level failure, a response that
\* raise_for_status rejects, or a 2xx response whose body is JSON or is not.
AttemptOutcomes == {"connect_error", "http_401", "http_500", "ok_json", "ok_text"}

IsHttpError(o) == o \in {"http_401", "http_500"}

StatusCodeOf(o) ==
    CASE o = "http_401" -> 401
      [] o = "http_500" -> 500
      [] OTHER -> 200

\* _build_headers (http_client.py:105-131): verification says whether the
\* verification block went in; authorization whether a token was passed.
BuildHeaders(verification, auth_token) ==
    [steam_pid |-> verification = "ok", authorization |-> auth_token, built |-> 0]

\* The header refresh of a retry (http_client.py:43-64).
RefreshHeaders(current_headers, available, refresh_ok, attempt) ==
    IF current_headers.steam_pid
    THEN IF available /\ refresh_ok
         THEN [steam_pid |-> TRUE,
               authorization |-> current_headers.authorization,
               built |-> attempt]
         ELSE current_headers
    ELSE [steam_pid |-> FALSE, authorization |-> FALSE, built |-> attempt]

\* What the attempt returns to the caller when it does not raise
\* (http_client.py:66-80): response.json() of a GET raises on a body that is
\* no JSON.
AttemptSucceeds(method, o) ==
    \/ o = "ok_json"
    \/ o = "ok_text" /\ method = "POST"

\* A loop that reports the exhaustion of the attempts and not their error.
FinalErrorUnspecific(o) ==
    [success |-> FALSE, error |-> "All retry attempts failed"]

\* http_client.py:83-95
FinalError(o) ==
    IF IsHttpError(o)
    THEN [success |-> FALSE, error |-> "HTTP " \o ToString(StatusCodeOf(o)),
          status_code |-> StatusCodeOf(o)]
    ELSE [success |-> FALSE, error |-> o]

\* What the network has in store for the attempts of one call.
Scripts == [1..HTTP_MAX_RETRIES -> AttemptOutcomes]

\* get / post (http_client.py:150-152, 191-195) up to the first attempt.
RetryCall(method, auth_token, verification, script) ==
    /\ rq.pc \in {"idle", "returned"}
    /\ rq' = [pc |-> "attempt", method |-> method, attempt |-> 0,
              available |-> verification # "unavailable",
              token |-> auth_token,
              headers |-> BuildHeaders(verification, auth_token),
              script |-> script,
              sent |-> <<>>, seen |-> <<>>, sleeps |-> 0,
              result |-> EmptyDict]
    /\ UNCHANGED <<download_state, workers, nextWorker, temp, installdir, lastCall, st, api>>

\* One round of a loop that makes at most `rounds` attempts
\* (http_client.py:36-98).
RetryRound(rounds, refresh_ok) ==
    /\ rq.pc = "attempt"
    /\ rq.attempt < rounds
    /\ LET o == rq.script[rq.attempt + 1]
           headers == IF rq.attempt > 0
                      THEN RefreshHeaders(rq.headers, rq.available, refresh_ok,
                                          rq.attempt)
                      ELSE rq.headers
           r == [rq EXCEPT !.headers = headers,
                           !.sent = Append(@, headers),
                           !.seen = Append(@, o),
                           !.sleeps = IF rq.attempt > 0 THEN @ + 1 ELSE @]
       IN rq' = IF AttemptSucceeds(rq.method, o)
                THEN [r EXCEPT !.pc = "returned",
                               !.result = [success |-> TRUE, data |-> o,
                                           status_code |-> 200]]
                ELSE IF rq.attempt = rounds - 1
                THEN [r EXCEPT !.pc = "returned", !.result = FinalError(o)]
                ELSE [r EXCEPT !.attempt = @ + 1]
    /\ UNCHANGED <<download_state, workers, nextWorker, temp, installdir, lastCall, st, api>>

\* A loop that gives up one attempt early.
RetryAttemptOneShort(refresh_ok) == RetryRound(HTTP_MAX_RETRIES - 1, refresh_ok)

\* for attempt in range(HTTP_MAX_RETRIES) (http_client.py:36)
RetryAttempt(refresh_ok) == RetryRound(HTTP_MAX_RETRIES, refresh_ok)

RetryNext ==
    \/ \E method \in {"GET", "POST"}, auth_token \in BOOLEAN,
          verification \in {"ok", "raises", "unavailable"}, script \in Scripts :
            RetryCall(method, auth_token, verification, script)
    \/ \E refresh_ok \in BOOLEAN : RetryAttempt(refresh_ok)

\* The calls of get and post, one attempt at a time.
RetrySpec == Init /\ [][RetryNext]_vars

\* ------------------------------------------------- the user id cache
\* The API keys a user configures, and the user id the server answers
\* /validate-api-key with for each of them.
ApiKeys == {"manilua_k1", "manilua_k2"}
UserOf(api_key) == "user of " \o api_key

ApiOthers == <<download_state, workers, nextWorker, temp, installdir, lastCall, rq, st>>

\* A getter that sees a step of set_api_key while it is inside get_user_id.
Raced(g) == IF g.pc = "idle" THEN g ELSE [g EXCEPT !.raced = TRUE]

\* api_manager.py:19: set_api_key, self._api_key = api_key.
set_api_key(api_key) ==
    /\ api.set.pc = "idle"
    /\ api.set.calls < MaxKeyChanges
    /\ api' = [api EXCEPT !.api_key = api_key,
                          !.set = [pc |-> "clear_cache", calls |-> @.calls + 1],
                          !.get = Raced(@)]
    /\ UNCHANGED ApiOthers

\* api_manager.py:20: self._user_id_cache = None.
SetClearCache ==
    /\ api.set.pc = "clear_cache"
    /\ api' = [api EXCEPT !.user_id_cache = PyNone,
                          !.set.pc = "clear_time",
                          !.get = Raced(@)]
    /\ UNCHANGED ApiOthers

\* api_manager.py:21: self._user_id_cache_time = 0, and the return.
SetClearTime ==
    /\ api.set.pc = "clear_time"
    /\ api' = [api EXCEPT !.user_id_cache_time = 0,
                          !.set.pc = "idle",
                          !.get = Raced(@)]
    /\ UNCHANGED ApiOthers

\* time.time() moves on.
ApiTick ==
    /\ api.clock < MaxApiTime
    /\ api' = [api EXCEPT !.clock = @ + 1]
    /\ UNCHANGED ApiOthers

\* api_manager.py:112-113: get_user_id is called (manilua.py:79 calls it
\* without force_refresh) and reads the clock.
get_user_id(force_refresh) ==
    /\ api.get.pc = "idle"
    /\ api.get.calls < MaxLookups
    /\ api' = [api EXCEPT !.get =
                  [IdleGetter EXCEPT !.pc = "check_cache",
                                     !.force_refresh = force_refresh,
                                     !.now = api.clock,
                                     !.raced = api.set.pc # "idle",
                                     !.calls = api.get.calls + 1]]
    /\ UNCHANGED ApiOthers

\* api_manager.py:115: not force_refresh and self._user_id_cache.
GetCheckCache ==
    /\ api.get.pc = "check_cache"
    /\ api' = [api EXCEPT !.get.pc =
                  IF ~api.get.force_refresh /\ ~api.user_id_cache.none
                  THEN "check_time" ELSE "fetch"]
    /\ UNCHANGED ApiOthers

\* api_manager.py:115: (now - self._user_id_cache_time) < self._cache_ttl.
GetCheckTime ==
    /\ api.get.pc = "check_time"
    /\ api' = [api EXCEPT !.get.pc =
                  IF api.get.now - api.user_id_cache_time < API_USER_ID_CACHE_TTL
                  THEN "return_cache" ELSE "fetch"]
    /\ UNCHANGED ApiOthers

\* api_manager.py:116: return self._user_id_cache.
GetReturnCache ==
    /\ api.get.pc = "return_cache"
    /\ api' = [api EXCEPT !.get.pc = "returned",
                          !.get.result = api.user_id_cache]
    /\ UNCHANGED ApiOthers

\* api_manager.py:128-132: _fetch_user_id reads the key.
FetchReadKey ==
    /\ api.get.pc = "fetch"
    /\ api' = IF api.api_key = ""
              THEN [api EXCEPT !.get.pc = "store",
                               !.get.result = ErrorResult("No API key available")]
              ELSE [api EXCEPT !.get.pc = "post", !.get.api_key = api.api_key]
    /\ UNCHANGED ApiOthers

\* What the POST to /validate-api-key and the parse of its answer come to.
FetchOutcomes == {"valid", "invalid", "failed"}

\* api_manager.py:134-159: the POST with the key that was read, and the
\* result _fetch_user_id makes of the answer.
FetchResult(api_key, outcome) ==
    CASE outcome = "valid" -> UserIdResult(UserOf(api_key))
      [] outcome = "invalid" -> ErrorResult("Invalid API key or no user ID")
      [] OTHER -> ErrorResult("error")

FetchPost(outcome) ==
    /\ api.get.pc = "post"
    /\ api' = [api EXCEPT !.get.pc = "store",
                          !.get.result = FetchResult(api.get.api_key, outcome)]
    /\ UNCHANGED ApiOthers

\* api_manager.py:120-121: if result.get('success'): self._user_id_cache = result.
GetStoreCache ==
    /\ api.get.pc = "store"
    /\ api' = IF api.get.result.success
              THEN [api EXCEPT !.user_id_cache = api.get.result,
                               !.get.pc = "store_time"]
              ELSE [api EXCEPT !.get.pc = "returned"]
    /\ UNCHANGED ApiOthers

\* api_manager.py:122-124: self._user_id_cache_time = now; return result.
GetStoreTime ==
    /\ api.get.pc = "store_time"
    /\ api' = [api EXCEPT !.user_id_cache_time = api.get.now,
                          !.get.pc = "returned"]
    /\ UNCHANGED ApiOthers

\* manilua.py:81-84: the caller has used the result.
GetDone ==
    /\ api.get.pc = "returned"
    /\ api' = [api EXCEPT !.get.pc = "idle"]
    /\ UNCHANGED ApiOthers

CacheNext ==
    \/ \E api_key \in ApiKeys : set_api_key(api_key)
    \/ SetClearCache \/ SetClearTime
    \/ ApiTick
    \/ \E force_refresh \in BOOLEAN : get_user_id(force_refresh)
    \/ GetCheckCache \/ GetCheckTime \/ GetReturnCache
    \/ FetchReadKey
    \/ \E outcome \in FetchOutcomes : FetchPost(outcome)
    \/ GetStoreCache \/ GetStoreTime \/ GetDone

\* set_api_key on one thread and get_user_id on another.
CacheSpec == Init /\ [][CacheNext]_vars

\* ------------------------------------------------------------ the claims
Status(appid) == DictGet(download_state[appid], "status", "")

Resting == {"done", "failed", "auth_failed", "awaiting_endpoint_choice"}

\* C1: under fair scheduling of the workers, an item that add_via_lua queued
\* eventually has status done, failed or auth_failed, or is parked in
\* awaiting_endpoint_choice.
C1_EventuallyResting ==
    \A a \in AppIds : (Status(a) = "queued") ~> (Status(a) \in Resting)

\* C1 witness: a queued item has come to rest once its worker has ended.
C1_Witness ==
    \E w \in 1..MaxWorkers :
        /\ workers[w].pc = "finished" /\ workers[w].last = "done"
        /\ Status(workers[w].appid) = "done"

\* Thread w takes the step.
StepBy(w) == workers'[w] # workers[w]

IsHttpSuccess(code) == code >= 200 /\ code <= 299

\* C2: a download whose streaming response has status 401 (and that meets no
\* other error) ends in auth_failed with requiresNewKey = true, not in done
\* or in the generic failed.
C2_AuthFailedOn401 ==
    [][\A w \in 1..MaxWorkers :
          (workers[w].code = 401 /\ workers[w].exc = ""
           /\ workers'[w].pc = "finished") =>
              /\ Status(workers[w].appid)' = "auth_failed"
              /\ DictGet(download_state'[workers[w].appid], "requiresNewKey", FALSE)
      ]_vars

\* C3: a download whose streaming response has a non-2xx status installs
\* nothing: its worker writes no file into the install directory and never
\* writes done.
C3_NoInstallOnHttpError ==
    [][\A w \in 1..MaxWorkers :
          (workers[w].code # 0 /\ ~IsHttpSuccess(workers[w].code) /\ StepBy(w)) =>
              /\ installdir' = installdir
              /\ workers'[w].last # "done"
      ]_vars

\* The members of av in the order of the candidate list eps.
InCandidateOrder(eps, av) == SelectSeq(eps, LAMBDA e : e \in Range(av))

\* C4: the list recorded for awaiting_endpoint_choice holds the available
\* endpoints in the order of the candidate list.
C4_AwaitingInCandidateOrder ==
    [][\A w \in 1..MaxWorkers :
          (workers[w].pc = "decide" /\ StepBy(w)
           /\ workers'[w].last = "awaiting_endpoint_choice") =>
              download_state'[workers[w].appid].available_endpoints
                  = InCandidateOrder(workers[w].endpoints, workers[w].available_on)
      ]_vars

\* C5: a select_endpoint_and_download naming an endpoint that is not in the
\* recorded list, or made while the status is not awaiting_endpoint_choice,
\* is rejected, changes no DownloadState and starts no worker.
C5_RejectedSelectChangesNothing ==
    [][(/\ lastCall'.op = "select"
        /\ IntOf(lastCall'.raw).ok
        /\ LET a == IntOf(lastCall'.raw).v IN
           \/ Status(a) # "awaiting_endpoint_choice"
           \/ lastCall'.ep \notin
                 Range(DictGet(download_state[a], "available_endpoints", <<>>)))
       => /\ lastCall'.success = FALSE
          /\ lastCall'.error # ""
          /\ UNCHANGED <<download_state, workers, nextWorker, temp, installdir>>
      ]_vars

\* C5 witness: an unlisted endpoint was refused while the item awaits a choice.
C5_Witness ==
    /\ lastCall.op = "select" /\ lastCall.raw = "1" /\ lastCall.ep = "donation"
    /\ ~lastCall.success
    /\ Status(1) = "awaiting_endpoint_choice"
    /\ download_state[1].available_endpoints = <<"ryuu", "manilua">>
    /\ nextWorker = 2

NoThreadRuns == \A w \in 1..MaxWorkers : workers[w].pc \in {"idle", "finished"}

NotAvailableError(appid) ==
    "App " \o ToString(appid) \o " is not available on any endpoint"

\* C6: an item that failed because no candidate endpoint reported available
\* has no endpoint set.
C6_NoEndpointWhenUnavailable ==
    \A a \in AppIds :
        (/\ NoThreadRuns
         /\ Status(a) = "failed"
         /\ DictGet(download_state[a], "error", "") = NotAvailableError(a))
        => DictGet(download_state[a], "endpoint", "") = ""

\* C7: with exactly one endpoint available the worker goes from
\* checking_availability to checking and then downloading with that endpoint,
\* and never writes awaiting_endpoint_choice.
C7_OneAvailableGoesStraight ==
    [][\A w \in 1..MaxWorkers :
          StepBy(w) =>
            /\ (workers[w].pc = "decide" /\ Len(workers[w].available_on) = 1) =>
                  /\ workers'[w].pc = "dl_checking"
                  /\ workers'[w].endpoint = workers[w].available_on[1]
                  /\ workers'[w].last = "checking_availability"
                  /\ download_state' = download_state
            /\ (workers[w].kind = "add" /\ workers[w].pc = "dl_checking") =>
                  /\ workers'[w].last = "checking"
                  /\ Status(workers[w].appid)' = "checking"
                  /\ download_state'[workers[w].appid].endpoint
                        = workers[w].available_on[1]
            /\ (workers[w].kind = "add" /\ workers[w].pc = "dl_resolve") =>
                  /\ workers'[w].last = "downloading"
                  /\ Status(workers[w].appid)' = "downloading"
                  /\ download_state'[workers[w].appid].endpoint
                        = workers[w].available_on[1]
            /\ (workers[w].kind = "add" /\ Len(workers[w].available_on) = 1) =>
                  workers'[w].last # "awaiting_endpoint_choice"
      ]_vars

\* C7 witness: the worker of an add with one available endpoint is downloading.
C7_Witness ==
    \E w \in 1..MaxWorkers :
        /\ workers[w].kind = "add" /\ Len(workers[w].available_on) = 1
        /\ workers[w].pc = "dl_stream" /\ workers[w].last = "downloading"
        /\ Status(workers[w].appid) = "downloading"

EmptyDownload == "Empty download from endpoint"

\* C8: a transfer whose stream ends with zero bytes read goes to the failure
\* handler, writes neither processing nor done, and ends by writing failed.
C8_EmptyTransferFails ==
    [][\A w \in 1..MaxWorkers :
          StepBy(w) =>
            /\ (workers[w].pc = "dl_after" /\ workers[w].bytes_read = 0) =>
                  /\ workers'[w].pc = "dl_cleanup"
                  /\ workers'[w].exc = EmptyDownload
                  /\ workers'[w].last = "downloading"
            /\ (workers[w].exc = EmptyDownload) =>
                  /\ workers'[w].last \in {"downloading", "failed"}
                  /\ workers'[w].pc \in {"dl_failed", "finished"}
                  /\ workers'[w].pc = "finished" =>
                        /\ workers'[w].last = "failed"
                        /\ Status(workers[w].appid)' = "failed"
                        /\ download_state'[workers[w].appid].error
                              = "Download failed: " \o EmptyDownload
      ]_vars

\* C8 witness: an empty transfer has been reported as failed.
C8_Witness ==
    \E a \in AppIds :
        /\ Status(a) = "failed"
        /\ download_state[a].error = "Download failed: " \o EmptyDownload

\* The network has a connection error in store for attempts 1..k of the call
\* and a 2xx response for attempt k+1.
FailsThenResponds(k) ==
    /\ \A i \in 1..k : rq.script[i] = "connect_error"
    /\ rq.script[k + 1] \in {"ok_json", "ok_text"}

\* C9 as claimed: a get or post whose first k attempts fail with a connection
\* error and whose attempt k+1 receives a 2xx response returns success, with
\* no error field.
C9_SuccessAfterConnectErrors ==
    (rq.pc = "returned" /\ \E k \in 0..(HTTP_MAX_RETRIES - 1) : FailsThenResponds(k))
    => (rq.result.success /\ "error" \notin DOMAIN rq.result)

\* C9 as amended: the same, for a post, and for a get when the body of the
\* 2xx response parses as JSON.
C9_SuccessAfterConnectErrorsParsed ==
    (/\ rq.pc = "returned"
     /\ \E k \in 0..(HTTP_MAX_RETRIES - 1) :
           /\ FailsThenResponds(k)
           /\ (rq.method = "POST" \/ rq.script[k + 1] = "ok_json"))
    => (rq.result.success /\ "error" \notin DOMAIN rq.result)

\* C9 witness: two connection errors, then a 2xx response, and success.
C9_Witness ==
    /\ rq.pc = "returned"
    /\ rq.seen = <<"connect_error", "connect_error", "ok_json">>
    /\ rq.result.success

\* The errors the handler of a download writes (manilua.py:199-202).
DownloadErrors ==
    {"Download failed: " \o e :
        e \in {"connection error", "read error", EmptyDownload, "install error",
               "Invalid ZIP file", "No such file", "remove error",
               "No files were successfully extracted from ZIP"}}

\* C10: while the status of an item is a failed that a download wrote, its
\* scratch file does not exist (unless an os.remove of it has raised).
C10_NoScratchFileWhenFailed ==
    \A a \in AppIds :
        (/\ Status(a) = "failed"
         /\ download_state[a].error \in DownloadErrors
         /\ ~temp[a].stuck)
        => ~temp[a].exists

\* The .lua entries of an archive, and os.path.basename of an entry.
LuaEntries(archive) == SelectSeq(archive, LAMBDA e : Lower(e.ext) = ".lua")

BaseName(e) == e.stem \o e.ext

\* The last entry of entries that has the base name.
LastNamed(entries, name) ==
    entries[CHOOSE i \in 1..Len(entries) :
               /\ BaseName(entries[i]) = name
               /\ \A j \in (i + 1)..Len(entries) : BaseName(entries[j]) # name]

\* The archive thread w is extracting.
ArchiveOf(w) == temp[workers[w].appid].payload.entries

C12_EveryEntryInstalled ==
    [][\A w \in 1..MaxWorkers :
          (workers[w].pc = "ex_files" /\ StepBy(w)) =>
            LET files == SelectSeq(ArchiveOf(w), LAMBDA e : ~IsDirEntry(e)) IN
            (LuaEntries(ArchiveOf(w)) = <<>>) =>
              /\ Len(workers'[w].installed) = Len(files)
              /\ \A i \in 1..Len(files) :
                    \E f \in DOMAIN installdir' : installdir'[f] = EntryName(files[i])
      ]_vars

\* The files of an item that remove_via_lua is to delete: the installed file,
\* its disabled variant and the manifests named after the item.
FilesOf(appid) ==
    {ToString(appid) \o ".lua", ToString(appid) \o ".lua.disabled",
     ToString(appid) \o "_7.manifest"}

\* C13: remove_via_lua of an id without installed file returns the "no files
\* found" result, and so does a remove_via_lua right after a successful one of
\* the same id, which changes no file.
C13_RemoveIdempotent ==
    [][(lastCall'.op = "remove" /\ IntOf(lastCall'.raw).ok) =>
          LET a == IntOf(lastCall'.raw).v
              nothing == /\ ~lastCall'.success
                         /\ lastCall'.error = NoFilesFound(a)
                         /\ installdir' = installdir
          IN /\ ((DOMAIN installdir) \cap FilesOf(a) = {}) => nothing
             /\ (/\ lastCall.op = "remove" /\ lastCall.raw = lastCall'.raw
                 /\ lastCall.success) => nothing
      ]_vars

\* C13 witness: nothing was found for an id whose files were removed, with
\* the file of another id left in place.
C13_Witness ==
    /\ lastCall.op = "remove" /\ lastCall.raw = "1"
    /\ lastCall.error = NoFilesFound(1)
    /\ Status(1) = "done"
    /\ DOMAIN installdir = {"11_7.manifest"}

\* C17: add_via_lua, select_endpoint_and_download and remove_via_lua of an id
\* that int() rejects return "Invalid appid" and change no DownloadState, no
\* thread and no file.
C17_InvalidAppidRejected ==
    [][(lastCall'.op \in {"add", "select", "remove"} /\ lastCall'.raw = "abc") =>
          /\ ~lastCall'.success
          /\ lastCall'.error = "Invalid appid"
          /\ UNCHANGED <<download_state, workers, nextWorker, temp, installdir>>
      ]_vars

\* C17 witness: a removal with an invalid id was rejected while files of the
\* item are installed.
C17_Witness ==
    /\ lastCall.op = "remove" /\ lastCall.raw = "abc"
    /\ lastCall.error = "Invalid appid"
    /\ "1.lua" \in DOMAIN installdir

\* The updates merged one after the other, from no entry.
RECURSIVE MergeAll(_)
MergeAll(updates) ==
    IF updates = <<>> THEN EmptyDict
    ELSE DictUpdate(MergeAll(SubSeq(updates, 1, Len(updates) - 1)),
                    updates[Len(updates)])

StoreIdle == \A t \in 1..MaxStoreThreads : st.th[t].pc = "idle"

\* C14: whatever the interleaving of the _set_download_state calls of several
\* threads on one id, a field keeps its value until an update that names it
\* is merged, and once the calls have returned the entry is the merge of the
\* updates one after the other.
C14_MergePreservesFields ==
    [][\A a \in AppIds :
          LET old == StoredValue(st, a)
              new == StoredValue(st', a)
          IN /\ \A k \in DOMAIN old :
                   /\ k \in DOMAIN new
                   /\ (new[k] # old[k]) =>
                         \E t \in 1..MaxStoreThreads :
                            /\ st.th[t].pc \in {"update", "assign"}
                            /\ st.th[t].appid = a
                            /\ k \in DOMAIN st.th[t].update
                            /\ new[k] = st.th[t].update[k]
             /\ StoreIdle' => new = MergeAll(st'.applied[a])
      ]_vars

\* C14 witness: three updates of two threads are merged, each with a field
\* the others do not name.
C14_Witness ==
    /\ StoreIdle
    /\ Len(st.applied[1]) = 3
    /\ {"bytesRead", "error", "available_endpoints"} \subseteq DOMAIN StoredValue(st, 1)

\* C18: nothing the caller does to a snapshot it was given changes a stored
\* entry, and reading an id without entry returns an empty dict and creates
\* no entry.
C18_SnapshotIsACopy ==
    [][/\ (st'.snap.edits # st.snap.edits) =>
             \A a \in AppIds : StoredValue(st', a) = StoredValue(st, a)
       /\ (st'.snap # st.snap /\ st'.snap.edits = st.snap.edits
           /\ st.entry[st'.snap.appid] = 0) =>
             /\ st'.snap.d = EmptyDict
             /\ st'.entry = st.entry
      ]_vars

\* C15: once the deadline of the fan-out has fired the worker can go on to
\* its decision, whatever probes are still running.
C15_NoWaitAfterDeadline ==
    \A w \in 1..MaxWorkers :
        (workers[w].pc = "fan_exit" /\ workers[w].timed_out) => ENABLED FanExit(w)

\* C16: an item whose status is done has a non-empty installedFiles list.
C16_DoneHasInstalledFiles ==
    \A a \in AppIds :
        (Status(a) = "done") => DictGet(download_state[a], "installedFiles", <<>>) # <<>>

\* C16 witness: a download is done and its installed file is recorded.
C16_Witness ==
    /\ Status(1) = "done"
    /\ download_state[1].installedFiles = <<"1.lua">>
    /\ "1.lua" \in DOMAIN installdir

\* C19: the error field is present only while the status is failed or
\* auth_failed.
C19_ErrorOnlyWhenFailed ==
    \A a \in AppIds :
        ("error" \in DOMAIN download_state[a]) => Status(a) \in {"failed", "auth_failed"}

\* C20: the list of available endpoints is populated only while the status is
\* awaiting_endpoint_choice.
C20_EndpointsOnlyWhileAwaiting ==
    \A a \in AppIds :
        (DictGet(download_state[a], "available_endpoints", <<>>) # <<>>)
        => Status(a) = "awaiting_endpoint_choice"

\* C21: a download whose streaming response has a 2xx status and a JSON
\* content type (an error envelope) installs nothing, never writes done, and
\* ends by writing failed or auth_failed.
C21_JsonEnvelopeIsAnError ==
    [][\A w \in 1..MaxWorkers :
          (/\ IsHttpSuccess(workers[w].code)
           /\ workers[w].ctype = "application/json"
           /\ StepBy(w)) =>
              /\ installdir' = installdir
              /\ workers'[w].last # "done"
              /\ workers'[w].pc = "finished" =>
                    workers'[w].last \in {"failed", "auth_failed"}
      ]_vars

\* C22: a background thread that has ended has written the state store, and
\* the status it wrote last is done, failed, auth_failed or
\* awaiting_endpoint_choice, whatever step of it raised.
C22_WorkerEndsResting ==
    \A w \in 1..MaxWorkers :
        (workers[w].pc = "finished") => workers[w].last \in Resting

\* C22 witness: the thread of an add has ended by asking for a choice, and
\* the thread of the selection has ended in the failure its outer handler
\* recorded.
C22_Witness ==
    \E w1, w2 \in 1..MaxWorkers :
        /\ workers[w1].kind = "add" /\ workers[w1].pc = "finished"
        /\ workers[w1].last = "awaiting_endpoint_choice"
        /\ workers[w2].kind = "select" /\ workers[w2].pc = "finished"
        /\ workers[w2].last = "failed"
        /\ download_state[workers[w2].appid].error = "Backend error: error"

NoFilesExtracted == "No files were successfully extracted from ZIP"

\* C30: an archive that opens and from which no entry is written sends its
\* download to the failure handler; the item never becomes done and ends in
\* failed with the "no files extracted" error, which is not the error of an
\* archive that cannot be read.
C30_NothingExtractedFails ==
    [][\A w \in 1..MaxWorkers :
          StepBy(w) =>
            /\ (workers[w].pc = "ex_report" /\ workers[w].installed = <<>>) =>
                  /\ workers'[w].pc = "dl_cleanup"
                  /\ workers'[w].exc = NoFilesExtracted
                  /\ download_state' = download_state
            /\ (workers[w].exc = NoFilesExtracted) =>
                  /\ workers'[w].last # "done"
                  /\ workers'[w].pc \in {"dl_failed", "finished"}
                  /\ workers'[w].pc = "finished" =>
                        /\ Status(workers[w].appid)' = "failed"
                        /\ download_state'[workers[w].appid].error
                              = "Download failed: " \o NoFilesExtracted
                        /\ download_state'[workers[w].appid].error
                              # "Download failed: Invalid ZIP file"
      ]_vars

\* C30 witness: an archive whose entries all failed to extract has ended in
\* failed with the "no files extracted" error, with a destination half written.
C30_Witness ==
    \E a \in AppIds :
        /\ Status(a) = "failed"
        /\ download_state[a].error = "Download failed: " \o NoFilesExtracted
        /\ \E f \in DOMAIN installdir : installdir[f] = "partial"

\* The steps of a download between opening the scratch file and moving or
\* removing it (manilua.py:111-166).
UsesScratchFile(w) ==
    workers[w].pc \in {"dl_chunk", "dl_after", "dl_processing", "dl_inspect",
                       "dl_single", "ex_start", "ex_open", "ex_installing",
                       "ex_files", "ex_report", "ex_remove"}

\* C23: the scratch file of an item is in use by at most one thread at a
\* time: no two threads are between the opening and the last use of the same
\* path.
C23_ScratchFileHasOneOwner ==
    \A w1, w2 \in 1..MaxWorkers :
        (/\ w1 # w2
         /\ UsesScratchFile(w1) /\ UsesScratchFile(w2))
        => TempZipPath(workers[w1].appid) # TempZipPath(workers[w2].appid)

\* C24: when the caller of get or post passed a token, the headers of every
\* attempt, the first and each retry, carry the Authorization header.
C24_EveryAttemptAuthorized ==
    (rq.pc \in {"attempt", "returned"} /\ rq.token) =>
        \A i \in 1..Len(rq.sent) : rq.sent[i].authorization

\* C25: a call of _retry_request makes at most HTTP_MAX_RETRIES attempts,
\* has slept once before each attempt but the first, always returns a result,
\* and after attempts that all failed returns success: False with the error
\* (and, for an HTTP error, the status code) of the last attempt.
C25_BoundedRetriesLastError ==
    (rq.pc \in {"attempt", "returned"}) =>
        /\ Len(rq.seen) <= HTTP_MAX_RETRIES
        /\ rq.sleeps = (IF rq.seen = <<>> THEN 0 ELSE Len(rq.seen) - 1)
        /\ (rq.pc = "attempt") => Len(rq.seen) < HTTP_MAX_RETRIES
        /\ (rq.pc = "returned") =>
              /\ "success" \in DOMAIN rq.result
              /\ ~rq.result.success =>
                    LET last == rq.seen[Len(rq.seen)] IN
                    /\ Len(rq.seen) = HTTP_MAX_RETRIES
                    /\ rq.result.error = (IF IsHttpError(last)
                                          THEN "HTTP " \o ToString(StatusCodeOf(last))
                                          ELSE last)
                    /\ IsHttpError(last) =>
                          rq.result.status_code = StatusCodeOf(last)
                    /\ ~IsHttpError(last) => "status_code" \notin DOMAIN rq.result

\* C25 witness: three failed attempts of different kinds, and the result is
\* that of the third.
C25_Witness ==
    /\ rq.pc = "returned"
    /\ rq.seen = <<"http_500", "connect_error", "http_401">>
    /\ rq.sleeps = 2
    /\ rq.result = [success |-> FALSE, error |-> "HTTP 401", status_code |-> 401]

\* C28: bytesRead and totalBytes of every item are non-negative, whatever
\* Content-Length header the server sends.
C28_ProgressNonNegative ==
    \A a \in AppIds :
        /\ DictGet(download_state[a], "bytesRead", 0) >= 0
        /\ DictGet(download_state[a], "totalBytes", 0) >= 0

\* The edges of the status machine of an item.
StatusEdges ==
    { <<"queued", "checking_availability">>,
      <<"checking_availability", "awaiting_endpoint_choice">>,
      <<"checking_availability", "checking">>,
      <<"awaiting_endpoint_choice", "checking">>,
      <<"checking", "downloading">>,
      <<"downloading", "processing">>,
      <<"processing", "extracting">>,
      <<"processing", "installing">>,
      <<"extracting", "installing">>,
      <<"installing", "done">> }

\* C29: every change of the status of an item follows an edge of the status
\* machine, goes to failed or auth_failed, or is the queued that a new
\* add_via_lua writes.
C29_StatusFollowsEdges ==
    [][\A a \in AppIds :
          (Status(a)' # Status(a)) =>
              \/ <<Status(a), Status(a)'>> \in StatusEdges
              \/ Status(a)' \in {"failed", "auth_failed"}
              \/ Status(a)' = "queued" /\ nextWorker' = nextWorker + 1
      ]_vars

\* C26: during the fan-out of an item at most max_workers (4) probes are
\* running at the same time, whatever the number of candidates.
C26_AtMostFourProbes ==
    \A w \in 1..MaxWorkers : Cardinality(workers[w].running) <= max_workers

\* C26 witness: four probes of a list of more than four candidates are
\* running and the next candidate waits in the queue.
C26_Witness ==
    \E w \in 1..MaxWorkers :
        /\ Len(workers[w].endpoints) > max_workers
        /\ Cardinality(workers[w].running) = max_workers
        /\ workers[w].pending # <<>>

\* The responses that make a probe fail, and those that report the endpoint
\* as available.
FailedProbes == {"raises", "failed", "not_json", "not_dict"}

AvailableProbes == {"available", "nested_available"}

\* A probe of thread w's fan-out ends in this step.
ProbeEnds(w) ==
    /\ workers[w].pc \in {"fan_collect", "fan_exit"}
    /\ workers'[w].running # workers[w].running
    /\ workers'[w].running \subseteq workers[w].running

\* C27: a probe that raises or returns a failed or malformed result only
\* leaves its endpoint out of the result: the fan-out goes on with the probes
\* that run and wait, nothing collected is lost, and every probe that reports
\* available before the collection ends is appended to the result.
C27_ProbeFailureIsLocal ==
    [][\A w \in 1..MaxWorkers :
          /\ ProbeEnds(w) =>
               LET e == workers'[w].probe.endpoint
                   resp == workers'[w].probe.resp
               IN /\ workers'[w].pc = workers[w].pc
                  /\ workers'[w].running = workers[w].running \ {e}
                  /\ workers'[w].pending = workers[w].pending
                  /\ (resp \in FailedProbes) =>
                        workers'[w].available_on = workers[w].available_on
                  /\ (resp \in AvailableProbes /\ workers[w].pc = "fan_collect") =>
                        workers'[w].available_on = Append(workers[w].available_on, e)
          /\ (workers[w].pc \in {"fan_collect", "fan_exit"} /\ ~ProbeEnds(w)) =>
               workers'[w].available_on = workers[w].available_on
      ]_vars

\* C27 witness: the probe of ryuu reported available, the probe of manilua
\* raised after it, and the fan-out has ended without its deadline with ryuu
\* collected.
C27_Witness ==
    \E w \in 1..MaxWorkers :
        /\ workers[w].pc = "fan_exit" /\ ~workers[w].timed_out
        /\ workers[w].endpoints = <<"ryuu", "manilua">>
        /\ workers[w].probe = [endpoint |-> "manilua", resp |-> "raises"]
        /\ workers[w].available_on = <<"ryuu">>

\* C31: in the chunk loop of a worker the write for the first non-empty chunk
\* is always made; every write puts the worker's byte count in the state and
\* is made at a clock reading at least DOWNLOAD_PROGRESS_UPDATE_INTERVAL after
\* the reading of the worker's write before it; and a chunk that comes sooner
\* leaves the state as it is.
C31_ProgressWritesCoalesced ==
    [][\A w \in 1..MaxWorkers :
          (/\ workers[w].pc = "dl_chunk"
           /\ workers'[w].bytes_read = workers[w].bytes_read + 1) =>
             LET a == workers[w].appid
                 first == workers[w].bytes_read = 0
                 written == workers'[w].last_ts # workers[w].last_ts
             IN /\ first => written
                /\ written =>
                      /\ workers'[w].last_ts = workers'[w].clock
                      /\ download_state'[a].status = "downloading"
                      /\ download_state'[a].bytesRead = workers'[w].bytes_read
                      /\ \/ first
                         \/ workers'[w].clock - workers[w].last_ts
                               >= DOWNLOAD_PROGRESS_UPDATE_INTERVAL
                /\ ~written => download_state' = download_state
      ]_vars

\* C31 witness: two chunks are read and the progress of the first only is
\* written, the second having come within the interval.
C31_Witness ==
    \E w \in 1..MaxWorkers :
        /\ workers[w].pc = "dl_chunk"
        /\ workers[w].bytes_read = 2
        /\ workers[w].last_ts = workers[w].clock
        /\ download_state[workers[w].appid].bytesRead = 1

\* C32: no two worker threads are at work on one item id at a time.
C32_OneWorkerPerId ==
    \A w1, w2 \in 1..MaxWorkers :
        (/\ w1 # w2
         /\ workers[w1].pc \notin {"idle", "finished"}
         /\ workers[w2].pc \notin {"idle", "finished"})
        => workers[w1].appid # workers[w2].appid

\* C33: a remove_via_lua that did not raise, called for an item whose status is
\* done, leaves none of the paths of the item's installedFiles in the target
\* directory.
C33_RemoveUndoesInstall ==
    [][(/\ lastCall'.op = "remove"
        /\ IntOf(lastCall'.raw).ok
        /\ lastCall'.error # "remove error") =>
          LET a == IntOf(lastCall'.raw).v IN
          (/\ Status(a) = "done"
           /\ "installedFiles" \in DOMAIN download_state[a]) =>
             \A f \in Range(download_state[a].installedFiles) :
                 f \notin DOMAIN installdir'
      ]_vars

\* C34: when a worker writes done, the paths of installedFiles are pairwise
\* distinct, and after the extraction of an archive the i-th path is a file
\* with the content of the i-th entry that was written.
C34_InstalledPathsDistinct ==
    [][\A w \in 1..MaxWorkers :
          (StepBy(w) /\ workers[w].pc = "dl_done") =>
            LET a == workers[w].appid
                files == download_state'[a].installedFiles
                written == SelectSeq(workers[w].entries, LAMBDA e : ~IsDirEntry(e))
            IN /\ download_state'[a].status = "done"
               /\ \A i, j \in DOMAIN files : (i # j) => files[i] # files[j]
               /\ (written # <<>>) =>
                     /\ Len(files) = Len(written)
                     /\ \A i \in DOMAIN files :
                           /\ files[i] \in DOMAIN installdir'
                           /\ installdir'[files[i]] = EntryName(written[i])
      ]_vars

\* C35: a get_user_id call without force_refresh that starts after
\* set_api_key(k) has returned, and during which set_api_key takes no step,
\* returns no user id fetched with a key other than k; and the cache never
\* holds the result of a failed fetch.
C35_CacheFollowsKey ==
    /\ (/\ api.get.pc = "returned"
        /\ ~api.get.force_refresh
        /\ ~api.get.raced
        /\ api.set.pc = "idle"
        /\ api.get.result.success)
       => api.get.result.userId = UserOf(api.api_key)
    /\ ~api.user_id_cache.none => api.user_id_cache.success

====
